---- MODULE Spec2Model ----
(***************************************************************************)
(* A model of mcp_kanka's ContentConverter (converter.py): the mention     *)
(* protector, the Markdown -> HTML wrapper around the shared Markdown      *)
(* renderer, and the HTML -> Markdown tree walk.                           *)
(*                                                                         *)
(* A Python str is a sequence of one-character strings.  An Optional[str]  *)
(* is a record [isNone, val].  A call that raises is recorded in exc.      *)
(***************************************************************************)
EXTENDS Integers, Sequences, FiniteSets, TLC

\* ------------------------------------------------------------------ bounds

\* Most segments a Markdown input is put together from.
MaxSegs == 3
\* Most direct children of a list in the fragment trees.
MaxItems == 3
\* Most nodes of a whitespace/comment-only fragment.
MaxBlank == 3

\* The most rows of a table, and the most cells of a row.
MaxRows == 2

MaxCols == 2

\* The most block-level nodes of a fragment of paragraphs and line breaks.
MaxBlocks == 4

\* The most conversions that run side by side.
MaxThreads == 2

\* The most text nodes and inline elements side by side in one element.
MaxParts == 3

\* The page size the service asks the API for.
PageLimit == 100

\* The most pages get_entity_by_id reads of the entities listing.
MaxLookupPages == 10

\* The most pages handle_check_entity_updates reads of it.
MaxCheckPages == 20

\* The most entities of a campaign besides its filler characters, and the
\* most items of a batch.
MaxEntities == 2

MaxBatch == 2

\* ------------------------------------------------------- strings (Python str)

NoneStr == [isNone |-> TRUE, val |-> <<>>]

Some(s) == [isNone |-> FALSE, val |-> s]

\* Python truthiness of an Optional[str]: None and "" are false.
Truthy(o) == ~o.isNone /\ o.val # <<>>

\* The backtick character, which a TLA+ string literal cannot hold.
BQ == "BACKTICK"

\* An id class that takes letters too.
Digits_or_letters == {"0", "1", "2", "3", "4", "5", "6", "7", "8", "9", "a", "b", "c"}

Digits == {"0", "1", "2", "3", "4", "5", "6", "7", "8", "9"}

\* str.isspace() on the characters the model uses.
IsSpace(c) == c \in {" ", "\n", "\t"}

SetMin(S) == CHOOSE x \in S : \A y \in S : x <= y

\* The last index of the longest run s[i..j] of characters of set cs when
\* inside, of characters outside cs otherwise (i - 1 when s[i] is no such
\* character): a greedy character-class repetition of the regex engine.
RunEnd(s, i, cs, inside) ==
  LET stops == {j \in i..Len(s) : (s[j] \in cs) # inside}
  IN  IF stops = {} THEN Len(s) ELSE SetMin(stops) - 1

StartsWithAt(s, i, p) ==
  /\ i >= 1
  /\ i + Len(p) - 1 <= Len(s)
  /\ SubSeq(s, i, i + Len(p) - 1) = p

\* `p in s` for a non-empty p.
Contains(s, p) == \E i \in 1..Len(s) : StartsWithAt(s, i, p)


\* str(n) for n >= 0.
RECURSIVE ToDecimal(_)
ToDecimal(n) ==
  LET d == <<"0", "1", "2", "3", "4", "5", "6", "7", "8", "9">>
  IN  IF n < 10 THEN <<d[n + 1]>> ELSE ToDecimal(n \div 10) \o <<d[(n % 10) + 1]>>

\* str.strip(): leading and trailing whitespace removed.
Strip(s) ==
  LET keep == {i \in 1..Len(s) : ~IsSpace(s[i])}
  IN  IF keep = {} THEN <<>>
      ELSE SubSeq(s, SetMin(keep), CHOOSE j \in keep : \A k \in keep : k <= j)

\* str.replace(old, new): every non-overlapping occurrence, left to right.
RECURSIVE ReplaceFrom(_, _, _, _)
ReplaceFrom(s, i, old, new) ==
  IF i > Len(s) THEN <<>>
  ELSE IF StartsWithAt(s, i, old)
       THEN new \o ReplaceFrom(s, i + Len(old), old, new)
       ELSE <<s[i]>> \o ReplaceFrom(s, i + 1, old, new)

Replace(s, old, new) == IF old = <<>> THEN s ELSE ReplaceFrom(s, 1, old, new)

\* sep.join(parts)
RECURSIVE Join(_, _)
Join(parts, sep) ==
  IF parts = <<>> THEN <<>>
  ELSE IF Len(parts) = 1 THEN parts[1]
  ELSE parts[1] \o sep \o Join(Tail(parts), sep)

\* "".join(parts)
RECURSIVE Concat(_)
Concat(parts) == IF parts = <<>> THEN <<>> ELSE parts[1] \o Concat(Tail(parts))

\* str.format(*args) on a template whose only replacement fields are
\* auto-numbered "{}": field number n (from 1) takes args[n]; a field with no
\* argument left raises IndexError.
RECURSIVE FormatFrom(_, _, _, _)
FormatFrom(t, i, n, args) ==
  IF i > Len(t) THEN [raised |-> FALSE, val |-> <<>>]
  ELSE IF StartsWithAt(t, i, <<"{", "}">>)
       THEN IF n > Len(args)
            THEN [raised |-> TRUE, val |-> <<>>]
            ELSE LET rest == FormatFrom(t, i + 2, n + 1, args)
                 IN  IF rest.raised THEN rest
                     ELSE [raised |-> FALSE, val |-> args[n] \o rest.val]
       ELSE LET rest == FormatFrom(t, i + 1, n, args)
            IN  IF rest.raised THEN rest
                ELSE [raised |-> FALSE, val |-> <<t[i]>> \o rest.val]

Format(template, args) == FormatFrom(template, 1, 1, args)

\* ------------------------------------------------------- mention protector

\* The literal prefix of MENTION_PATTERN, r"\[entity:".
MentionOpen == <<"[", "e", "n", "t", "i", "t", "y", ":">>

PLACEHOLDER_TEMPLATE ==
  <<"_", "_", "K", "A", "N", "K", "A", "_", "M", "E", "N", "T", "I", "O", "N",
    "_", "{", "}", "_", "_", "{", "}">>

\* The literal prefix of PLACEHOLDER_PATTERN, r"__KANKA_MENTION_".
PlaceholderOpen ==
  <<"_", "_", "K", "A", "N", "K", "A", "_", "M", "E", "N", "T", "I", "O", "N", "_">>

NoMatch == [matched |-> FALSE, last |-> 0, entity_id |-> <<>>, text |-> NoneStr]

\* MENTION_PATTERN.match at index i: r"\[entity:(\d+)(?:\|([^\]]+))?\]".
\* \d+ and [^\]]+ are greedy; giving characters back never helps, as the
\* character after a maximal run is the only one that can match what follows.
MENTION_PATTERN(s, i) ==
  IF ~StartsWithAt(s, i, MentionOpen) THEN NoMatch
  ELSE LET d0 == i + Len(MentionOpen)
           d1 == RunEnd(s, d0, Digits, TRUE)
           a  == d1 + 1
       IN  IF d1 < d0 \/ a > Len(s) THEN NoMatch
           ELSE IF s[a] = "]"
                THEN [matched |-> TRUE, last |-> a,
                      entity_id |-> SubSeq(s, d0, d1), text |-> NoneStr]
           ELSE IF s[a] = "|"
                THEN LET t1 == RunEnd(s, a + 1, {"]"}, FALSE)
                     IN  IF t1 >= a + 1 /\ t1 + 1 <= Len(s)
                         THEN [matched |-> TRUE, last |-> t1 + 1,
                               entity_id |-> SubSeq(s, d0, d1),
                               text |-> Some(SubSeq(s, a + 1, t1))]
                         ELSE NoMatch
           ELSE NoMatch

\* PLACEHOLDER_PATTERN.search: r"__KANKA_MENTION_(\d+)__" somewhere in s.
PLACEHOLDER_PATTERN(s) ==
  \E i \in 1..Len(s) :
    /\ StartsWithAt(s, i, PlaceholderOpen)
    /\ LET d0 == i + Len(PlaceholderOpen)
           d1 == RunEnd(s, d0, Digits, TRUE)
       IN  d1 >= d0 /\ StartsWithAt(s, d1 + 1, <<"_", "_">>)

\* replace_mention(match) with the counter at k.
replace_mention(m, k) ==
  LET ph == Format(PLACEHOLDER_TEMPLATE, <<ToDecimal(k)>>)
  IN  [raised |-> ph.raised,
       placeholder |-> ph.val,
       mention |-> [placeholder |-> ph.val, entity_id |-> m.entity_id, text |-> m.text]]

\* MENTION_PATTERN.sub(replace_mention, content) from index i on, the counter
\* at k: left to right over non-overlapping matches.
RECURSIVE SubMentions(_, _, _)
SubMentions(s, i, k) ==
  IF i > Len(s) THEN [raised |-> FALSE, protected |-> <<>>, mentions |-> <<>>]
  ELSE LET m == MENTION_PATTERN(s, i)
       IN  IF m.matched
           THEN LET r == replace_mention(m, k)
                IN  IF r.raised
                    THEN [raised |-> TRUE, protected |-> <<>>, mentions |-> <<>>]
                    ELSE LET rest == SubMentions(s, m.last + 1, k + 1)
                         IN  IF rest.raised THEN rest
                             ELSE [raised |-> FALSE,
                                   protected |-> r.placeholder \o rest.protected,
                                   mentions |-> <<r.mention>> \o rest.mentions]
           ELSE LET rest == SubMentions(s, i + 1, k)
                IN  IF rest.raised THEN rest
                    ELSE [raised |-> FALSE,
                          protected |-> <<s[i]>> \o rest.protected,
                          mentions |-> rest.mentions]

_protect_mentions(content) == SubMentions(content, 1, 0)

\* The literal mention text _restore_mentions writes for one mapping entry.
MentionText(mn) ==
  IF Truthy(mn.text)
  THEN MentionOpen \o mn.entity_id \o <<"|">> \o mn.text.val \o <<"]">>
  ELSE MentionOpen \o mn.entity_id \o <<"]">>

RECURSIVE _restore_mentions(_, _)
_restore_mentions(content, mentions) ==
  IF mentions = <<>> THEN content
  ELSE _restore_mentions(Replace(content, mentions[1].placeholder, MentionText(mentions[1])),
                         Tail(mentions))

\* The mentions of s, left to right, as written.
RECURSIVE MentionsOf(_, _)
MentionsOf(s, i) ==
  IF i > Len(s) THEN <<>>
  ELSE LET m == MENTION_PATTERN(s, i)
       IN  IF m.matched THEN <<SubSeq(s, i, m.last)>> \o MentionsOf(s, m.last + 1)
           ELSE MentionsOf(s, i + 1)

\* ------------------------------------------------------- more of str

\* s * n
RECURSIVE Repeat(_, _)
Repeat(s, n) == IF n <= 0 THEN <<>> ELSE s \o Repeat(s, n - 1)

\* [x] * n
RECURSIVE RepeatList(_, _)
RepeatList(x, n) == IF n <= 0 THEN <<>> ELSE <<x>> \o RepeatList(x, n - 1)

\* s.split(c) for a one-character separator c.
RECURSIVE Split(_, _)
Split(s, c) ==
  LET at == {j \in 1..Len(s) : s[j] = c}
  IN  IF at = {} THEN <<s>>
      ELSE <<SubSeq(s, 1, SetMin(at) - 1)>> \o Split(SubSeq(s, SetMin(at) + 1, Len(s)), c)

\* re.sub(r"\n{3,}", "\n\n", s): every maximal run of three or more newlines
\* becomes two.
RECURSIVE CollapseNewlines(_, _)
CollapseNewlines(s, i) ==
  IF i > Len(s) THEN <<>>
  ELSE IF s[i] = "\n"
       THEN LET e == RunEnd(s, i, {"\n"}, TRUE)
            IN  (IF e - i + 1 >= 3 THEN <<"\n", "\n">> ELSE SubSeq(s, i, e))
                \o CollapseNewlines(s, e + 1)
       ELSE <<s[i]>> \o CollapseNewlines(s, i + 1)

\* ------------------------------------------------------- fragment tree

\* A node of a parsed fragment (bs4): a string node, whose name is None
\* (modelled as the empty name), or a tag with attributes and children.
NoAttrs == [href |-> NoneStr, start |-> NoneStr]

Text(s) ==
  [kind |-> "text", name |-> <<>>, text |-> s, attrs |-> NoAttrs, children |-> <<>>]

Comment(s) ==
  [kind |-> "comment", name |-> <<>>, text |-> s, attrs |-> NoAttrs, children |-> <<>>]

El(name, attrs, children) ==
  [kind |-> "tag", name |-> name, text |-> <<>>, attrs |-> attrs, children |-> children]

\* The BeautifulSoup object itself: a tag named "[document]".
Soup(children) == El(<<"[", "d", "o", "c", "u", "m", "e", "n", "t", "]">>, NoAttrs, children)

\* Tag.get_text(): the text of every descendant string, comments left out.
RECURSIVE get_text(_)
get_text(element) ==
  IF element.kind = "text" THEN element.text
  ELSE IF element.kind = "comment" THEN <<>>
  ELSE Concat([i \in 1..Len(element.children) |-> get_text(element.children[i])])

\* Tag.descendants, in document order.
RECURSIVE Descendants(_)
Descendants(element) ==
  Concat([i \in 1..Len(element.children) |->
            <<element.children[i]>> \o Descendants(element.children[i])])

IsTagIn(node, names) == node.kind = "tag" /\ node.name \in names

\* Tag.find_all(names)
find_all(element, names) ==
  SelectSeq(Descendants(element), LAMBDA n : IsTagIn(n, names))

\* Tag.find_all(names, recursive=False)
find_all_direct(element, names) ==
  SelectSeq(element.children, LAMBDA n : IsTagIn(n, names))

\* Tag.get(key, "") for the attributes the model keeps.
get_href(element) == IF element.attrs.href.isNone THEN <<>> ELSE element.attrs.href.val

\* ------------------------------------------------------- HTML -> Markdown

Headings == {<<"h", "1">>, <<"h", "2">>, <<"h", "3">>, <<"h", "4">>, <<"h", "5">>, <<"h", "6">>}

\* A rendering that is this marker, or holds it, stands for an exception
\* raised inside the tree walk: no character of a document equals it.
Raised == <<"<raised>">>

HasRaised(s) == \E i \in 1..Len(s) : s[i] = Raised[1]

\* int(c) for one character: its value, or -1 where int() raises ValueError.
IntOf(c) ==
  CASE c = "0" -> 0 [] c = "1" -> 1 [] c = "2" -> 2 [] c = "3" -> 3 [] c = "4" -> 4
    [] c = "5" -> 5 [] c = "6" -> 6 [] c = "7" -> 7 [] c = "8" -> 8 [] c = "9" -> 9
    [] OTHER -> -1

RECURSIVE _html_to_markdown_recursive(_)

_process_children(element) ==
  Strip(Concat([i \in 1..Len(element.children) |->
                  _html_to_markdown_recursive(element.children[i])]))

\* element.name is None: a text node (and every other string node).
Rule_text(element) == Strip(element.text)

Rule_p(element) == _process_children(element) \o <<"\n", "\n">>

Rule_heading(element) ==
  LET level == IntOf(element.name[2])
  IN  IF level < 0 THEN Raised
      ELSE Repeat(<<"#">>, level) \o <<" ">> \o _process_children(element) \o <<"\n", "\n">>

Rule_strong(element) == <<"*", "*">> \o _process_children(element) \o <<"*", "*">>

Rule_em(element) == <<"*">> \o _process_children(element) \o <<"*">>

Rule_code(element) == <<BQ>> \o get_text(element) \o <<BQ>>

Rule_pre(element) ==
  LET found == find_all(element, {<<"c", "o", "d", "e">>})
      content == IF found # <<>> THEN get_text(found[1]) ELSE get_text(element)
  IN  <<BQ, BQ, BQ, "\n">> \o content \o <<"\n", BQ, BQ, BQ, "\n", "\n">>

\* Rule_a without its test for a mention marker.
Rule_a_always_link(element) ==
  <<"[">> \o _process_children(element) \o <<"]", "(">> \o get_href(element) \o <<")">>

Rule_a(element) ==
  LET text == _process_children(element)
      href == get_href(element)
  IN  IF Contains(text, MentionOpen) THEN text
      ELSE <<"[">> \o text \o <<"]", "(">> \o href \o <<")">>

\* Rule_ul iterating over every item below the list, not only its own.
Rule_ul_all_items(element) ==
  LET lis == find_all(element, {<<"l", "i">>})
      items == [i \in 1..Len(lis) |-> <<"-", " ">> \o _process_children(lis[i])]
  IN  Join(items, <<"\n">>) \o <<"\n", "\n">>

Rule_ul(element) ==
  LET lis == find_all_direct(element, {<<"l", "i">>})
      items == [i \in 1..Len(lis) |-> <<"-", " ">> \o _process_children(lis[i])]
  IN  Join(items, <<"\n">>) \o <<"\n", "\n">>

\* Rule_ol numbering from 0 (enumerate without its start argument).
Rule_ol_from_zero(element) ==
  LET lis == find_all_direct(element, {<<"l", "i">>})
      items == [i \in 1..Len(lis) |->
                  ToDecimal(i - 1) \o <<".", " ">> \o _process_children(lis[i])]
  IN  Join(items, <<"\n">>) \o <<"\n", "\n">>

Rule_ol(element) ==
  LET lis == find_all_direct(element, {<<"l", "i">>})
      items == [i \in 1..Len(lis) |->
                  ToDecimal(i) \o <<".", " ">> \o _process_children(lis[i])]
  IN  Join(items, <<"\n">>) \o <<"\n", "\n">>

Rule_blockquote(element) ==
  LET lines == Split(Strip(_process_children(element)), "\n")
      quoted == [i \in 1..Len(lines) |-> <<">", " ">> \o lines[i]]
  IN  Join(quoted, <<"\n">>) \o <<"\n", "\n">>

TableRow(tr) ==
  LET tds == find_all(tr, {<<"t", "d">>, <<"t", "h">>})
      cells == [i \in 1..Len(tds) |-> Strip(_process_children(tds[i]))]
  IN  <<"|", " ">> \o Join(cells, <<" ", "|", " ">>) \o <<" ", "|">>

Rule_table(element) ==
  LET trs == find_all(element, {<<"t", "r">>})
      rows == [i \in 1..Len(trs) |-> TableRow(trs[i])]
      header_cells == Len(Split(rows[1], "|")) - 2
      separator == <<"|", " ">> \o Join(RepeatList(<<"-", "-", "-">>, header_cells), <<" ", "|", " ">>) \o <<" ", "|">>
      withsep == IF Len(rows) > 1
                 THEN <<rows[1], separator>> \o SubSeq(rows, 2, Len(rows))
                 ELSE rows
  IN  IF Len(rows) > 0 THEN Join(withsep, <<"\n">>) \o <<"\n", "\n">> ELSE <<>>

\* Rule_default giving the raw text content instead of the children's renderings.
Rule_default_get_text(element) == get_text(element)

\* div, span and the final else: the children, with no wrapping.
Rule_default(element) == _process_children(element)

_html_to_markdown_recursive(element) ==
  IF element.name = <<>> THEN Rule_text(element)
  ELSE IF element.name = <<"p">> THEN Rule_p(element)
  ELSE IF element.name = <<"b", "r">> THEN <<"\n">>
  ELSE IF element.name \in Headings THEN Rule_heading(element)
  ELSE IF element.name \in {<<"s", "t", "r", "o", "n", "g">>, <<"b">>} THEN Rule_strong(element)
  ELSE IF element.name \in {<<"e", "m">>, <<"i">>} THEN Rule_em(element)
  ELSE IF element.name = <<"c", "o", "d", "e">> THEN Rule_code(element)
  ELSE IF element.name = <<"p", "r", "e">> THEN Rule_pre(element)
  ELSE IF element.name = <<"a">> THEN Rule_a(element)
  ELSE IF element.name = <<"u", "l">> THEN Rule_ul(element)
  ELSE IF element.name = <<"o", "l">> THEN Rule_ol(element)
  ELSE IF element.name = <<"b", "l", "o", "c", "k", "q", "u", "o", "t", "e">> THEN Rule_blockquote(element)
  ELSE IF element.name = <<"h", "r">> THEN <<"-", "-", "-", "\n", "\n">>
  ELSE IF element.name = <<"t", "a", "b", "l", "e">> THEN Rule_table(element)
  ELSE Rule_default(element)

\* The cleanup without its strip.
Cleanup_collapse_only(markdown_text) == CollapseNewlines(markdown_text, 1)

\* The cleanup without its collapsing step.
Cleanup_strip_only(markdown_text) == Strip(markdown_text)

\* The final cleanup of html_to_markdown.
Cleanup(markdown_text) == CollapseNewlines(Strip(markdown_text), 1)

\* ------------------------------------------------------- collaborators

\* The escaping both the Markdown renderer and an HTML serializer apply to text.
RECURSIVE Escape(_)
Escape(s) ==
  IF s = <<>> THEN <<>>
  ELSE (CASE s[1] = "&" -> <<"&", "a", "m", "p", ";">>
          [] s[1] = "<" -> <<"&", "l", "t", ";">>
          [] s[1] = ">" -> <<"&", "g", "t", ";">>
          [] OTHER -> <<s[1]>>) \o Escape(Tail(s))

\* The parser's decoding of the entity references Escape writes.
RECURSIVE Unescape(_, _)
Unescape(s, i) ==
  IF i > Len(s) THEN <<>>
  ELSE IF StartsWithAt(s, i, <<"&", "a", "m", "p", ";">>) THEN <<"&">> \o Unescape(s, i + 5)
  ELSE IF StartsWithAt(s, i, <<"&", "l", "t", ";">>) THEN <<"<">> \o Unescape(s, i + 4)
  ELSE IF StartsWithAt(s, i, <<"&", "g", "t", ";">>) THEN <<">">> \o Unescape(s, i + 4)
  ELSE <<s[i]>> \o Unescape(s, i + 1)

\* s.split(sep) for a separator of any length.
RECURSIVE SplitStr(_, _)
SplitStr(s, sep) ==
  LET at == {j \in 1..Len(s) : StartsWithAt(s, j, sep)}
  IN  IF at = {} THEN <<s>>
      ELSE <<SubSeq(s, 1, SetMin(at) - 1)>>
             \o SplitStr(SubSeq(s, SetMin(at) + Len(sep), Len(s)), sep)

\* self.md.convert(source), for sources of plain prose: blocks separated by
\* blank lines become paragraphs, a bare newline a line break (nl2br), and
\* & < > are escaped.  The renderer builds registries while it runs (md below).
md_convert(source) ==
  LET blocks == SplitStr(source, <<"\n", "\n">>)
      stripped == [i \in 1..Len(blocks) |-> Strip(blocks[i])]
      kept == SelectSeq(stripped, LAMBDA b : b # <<>>)
      paras == [i \in 1..Len(kept) |->
                  <<"<", "p", ">">> \o Replace(Escape(kept[i]), <<"\n">>, <<"<", "b", "r", " ", "/", ">", "\n">>) \o <<"<", "/", "p", ">">>]
  IN  Join(paras, <<"\n">>)

VoidTags == {<<"b", "r">>, <<"h", "r">>}

AttrText(key, o) == IF o.isNone THEN <<>> ELSE <<" ">> \o key \o <<"=", "\"">> \o o.val \o <<"\"">>

\* The markup of a fragment tree: what the stored HTML of a record looks like.
RECURSIVE Serialize(_)
Serialize(node) ==
  LET inner == Concat([i \in 1..Len(node.children) |-> Serialize(node.children[i])])
  IN  IF node.kind = "text" THEN Escape(node.text)
      ELSE IF node.kind = "comment" THEN <<"<", "!", "-", "-">> \o node.text \o <<"-", "-", ">">>
      ELSE IF node.name = <<"[", "d", "o", "c", "u", "m", "e", "n", "t", "]">> THEN inner
      ELSE IF node.name \in VoidTags /\ node.children = <<>>
           THEN <<"<">> \o node.name \o <<" ", "/", ">">>
      ELSE <<"<">> \o node.name \o AttrText(<<"h", "r", "e", "f">>, node.attrs.href)
             \o AttrText(<<"s", "t", "a", "r", "t">>, node.attrs.start) \o <<">">>
             \o inner \o <<"<", "/">> \o node.name \o <<">">>

\* The first index at or after i where p starts in s (Len(s) + 1 when nowhere).
IndexFrom(s, i, p) ==
  LET at == {j \in i..Len(s) : StartsWithAt(s, j, p)}
  IN  IF at = {} THEN Len(s) + 1 ELSE SetMin(at)

\* The value of attribute key inside the start tag s[from..to].
AttrValue(s, from, to, key) ==
  LET open == <<" ">> \o key \o <<"=", "\"">>
      at == IndexFrom(s, from, open)
      v0 == at + Len(open)
  IN  IF at > to THEN NoneStr
      ELSE Some(SubSeq(s, v0, IndexFrom(s, v0, <<"\"">>) - 1))

\* The sibling nodes html.parser builds from s[i..], up to the end tag that
\* closes their parent (or the end of the markup), for well-formed markup.
RECURSIVE ParseNodes(_, _)
ParseNodes(s, i) ==
  IF i > Len(s) THEN [nodes |-> <<>>, next |-> i]
  ELSE IF StartsWithAt(s, i, <<"<", "/">>)
       THEN [nodes |-> <<>>, next |-> IndexFrom(s, i, <<">">>) + 1]
  ELSE IF StartsWithAt(s, i, <<"<", "!", "-", "-">>)
       THEN LET e == IndexFrom(s, i + 4, <<"-", "-", ">">>)
                rest == ParseNodes(s, e + 3)
            IN  [nodes |-> <<Comment(SubSeq(s, i + 4, e - 1))>> \o rest.nodes,
                 next |-> rest.next]
  ELSE IF s[i] = "<"
       THEN LET gt == IndexFrom(s, i, <<">">>)
                name == SubSeq(s, i + 1, RunEnd(s, i + 1, {" ", "/", ">"}, FALSE))
                attrs == [href |-> AttrValue(s, i, gt, <<"h", "r", "e", "f">>),
                          start |-> AttrValue(s, i, gt, <<"s", "t", "a", "r", "t">>)]
                void == name \in VoidTags \/ s[gt - 1] = "/"
                kids == IF void THEN [nodes |-> <<>>, next |-> gt + 1]
                        ELSE ParseNodes(s, gt + 1)
                rest == ParseNodes(s, kids.next)
            IN  [nodes |-> <<El(name, attrs, kids.nodes)>> \o rest.nodes,
                 next |-> rest.next]
  ELSE LET e == RunEnd(s, i, {"<"}, FALSE)
           rest == ParseNodes(s, e + 1)
       IN  [nodes |-> <<Text(Unescape(SubSeq(s, i, e), 1))>> \o rest.nodes,
            next |-> rest.next]

\* BeautifulSoup(html, "html.parser"): a stray end tag at the top is dropped.
RECURSIVE ParseTop(_, _)
ParseTop(s, i) ==
  IF i > Len(s) THEN <<>>
  ELSE LET r == ParseNodes(s, i) IN r.nodes \o ParseTop(s, r.next)

BeautifulSoup(html) == Soup(ParseTop(html, 1))

\* ------------------------------------------------------- the converter's operations

\* Whether self.md.convert(source) raises: never for a blank source, which it
\* returns "" for before it touches anything; otherwise as outcome says.
md_convert_raises(source, outcome) == Strip(source) # <<>> /\ outcome = "raise"

\* markdown_to_html with the renderer's failure caught and "" returned.
markdown_to_html_swallows(content, md0, outcome) ==
  IF content = <<>>
  THEN [ret |-> <<>>, exc |-> "None", md |-> md0, convert |-> 0, reset |-> 0, raised |-> 0]
  ELSE LET p == _protect_mentions(content)
       IN  IF p.raised
           THEN [ret |-> <<>>, exc |-> "IndexError", md |-> md0,
                 convert |-> 0, reset |-> 0, raised |-> 0]
           ELSE IF md_convert_raises(p.protected, outcome)
           THEN [ret |-> <<>>, exc |-> "None", md |-> "dirty",
                 convert |-> 1, reset |-> 0, raised |-> 1]
           ELSE [ret |-> _restore_mentions(md_convert(p.protected), p.mentions),
                 exc |-> "None", md |-> "reset", convert |-> 1, reset |-> 1, raised |-> 0]

\* markdown_to_html without its early return for empty content.
markdown_to_html_no_guard(content, md0, outcome) ==
  LET p == _protect_mentions(content)
  IN  IF p.raised
      THEN [ret |-> <<>>, exc |-> "IndexError", md |-> md0, convert |-> 0, reset |-> 0, raised |-> 0]
      ELSE IF md_convert_raises(p.protected, outcome)
      THEN [ret |-> <<>>, exc |-> "RendererError", md |-> "dirty",
            convert |-> 1, reset |-> 0, raised |-> 1]
      ELSE [ret |-> _restore_mentions(md_convert(p.protected), p.mentions),
            exc |-> "None", md |-> "reset", convert |-> 1, reset |-> 1, raised |-> 0]

\* markdown_to_html(content) with the renderer in state md0; outcome says
\* whether self.md.convert returns ("ok") or raises ("raise").  convert and
\* reset count the calls made on the renderer, raised the calls of convert
\* that raised.
markdown_to_html(content, md0, outcome) ==
  IF content = <<>>
  THEN [ret |-> <<>>, exc |-> "None", md |-> md0, convert |-> 0, reset |-> 0, raised |-> 0]
  ELSE LET p == _protect_mentions(content)
       IN  IF p.raised
           THEN [ret |-> <<>>, exc |-> "IndexError", md |-> md0,
                 convert |-> 0, reset |-> 0, raised |-> 0]
           ELSE IF md_convert_raises(p.protected, outcome)
           THEN [ret |-> <<>>, exc |-> "RendererError", md |-> "dirty",
                 convert |-> 1, reset |-> 0, raised |-> 1]
           ELSE [ret |-> _restore_mentions(md_convert(p.protected), p.mentions),
                 exc |-> "None", md |-> "reset", convert |-> 1, reset |-> 1, raised |-> 0]

\* html_to_markdown(html); parse counts the calls made on the HTML parser.
html_to_markdown(html) ==
  IF html = <<>>
  THEN [ret |-> <<>>, exc |-> "None", parse |-> 0]
  ELSE LET markdown_text == _html_to_markdown_recursive(BeautifulSoup(html))
       IN  IF HasRaised(markdown_text)
           THEN [ret |-> <<>>, exc |-> "ValueError", parse |-> 1]
           ELSE [ret |-> Cleanup(markdown_text), exc |-> "None", parse |-> 1]

\* ------------------------------------------------------- inputs

\* Every concatenation of at most n of the segments.
RECURSIVE Pieces(_, _)
Pieces(segs, n) ==
  IF n = 0 THEN {<<>>}
  ELSE LET shorter == Pieces(segs, n - 1)
       IN  shorter \cup {p \o g : p \in shorter, g \in segs}

\* Every sequence of at most n of the nodes.
RECURSIVE NodeSeqs(_, _)
NodeSeqs(nodes, n) ==
  IF n = 0 THEN {<<>>}
  ELSE LET shorter == NodeSeqs(nodes, n - 1)
       IN  shorter \cup {Append(k, c) : k \in shorter, c \in nodes}

WellFormed == {<<"[", "e", "n", "t", "i", "t", "y", ":", "5", "|", "B", "o", "b", "]">>, <<"[", "e", "n", "t", "i", "t", "y", ":", "9", "]">>}

Malformed == {<<"[", "e", "n", "t", "i", "t", "y", ":", "a", "b", "c", "]">>, <<"[", "e", "n", "t", "i", "t", "y", ":", "5", "|", "]">>, <<"[", "e", "n", "t", "i", "t", "y", ":", "7", "|", "x">>}

Prose == {<<"H", "e", "l", "l", "o", " ">>, <<",", " ", "s", "e", "e", " ">>, <<"\n">>, <<"Q", "&", "A">>}

\* Markdown a caller writes into an entry.
MdInputs == Pieces(WellFormed \cup {<<"[", "e", "n", "t", "i", "t", "y", ":", "a", "b", "c", "]">>} \cup Prose, MaxSegs)

\* Content handed to the protector alone, placeholder-like text included.
ProtectInputs ==
  Pieces(WellFormed \cup Malformed \cup {<<"a">>, <<"_", "_", "K", "A", "N", "K", "A", "_", "M", "E", "N", "T", "I", "O", "N", "_", "0", "_", "_">>}, MaxSegs)

Href(u) == [href |-> Some(u), start |-> NoneStr]

Start(n) == [href |-> NoneStr, start |-> Some(n)]

Leaves ==
  {Text(<<"x">>), Text(<<" ", "y", " ">>), Text(<<"[", "e", "n", "t", "i", "t", "y", ":", "4", "2", "]">>), Text(<<" ">>), Comment(<<" ", "n", "o", "t", "e", " ">>)}

InlineFragments ==
  {El(n, NoAttrs, k) : n \in {<<"s", "t", "r", "o", "n", "g">>, <<"f", "o", "o">>, <<"h", "7">>, <<"p">>, <<"s", "p", "a", "n">>}, k \in NodeSeqs(Leaves, 2)}
    \cup {El(<<"a">>, at, k) : at \in {NoAttrs, Href(<<"u">>)}, k \in NodeSeqs(Leaves, 2)}

Nested ==
  {El(<<"s", "t", "r", "o", "n", "g">>, NoAttrs, <<Text(<<"[", "e", "n", "t", "i", "t", "y", ":", "5", "|", "B", "o", "b", "]">>)>>),
   El(<<"f", "o", "o">>, NoAttrs, <<Text(<<"x">>), El(<<"e", "m">>, NoAttrs, <<Text(<<"y">>)>>)>>),
   El(<<"p">>, NoAttrs, <<Text(<<"x">>)>>),
   El(<<"b", "r">>, NoAttrs, <<>>),
   Text(<<"t">>)}

NestedFragments ==
  {El(n, at, k) : n \in {<<"a">>, <<"f", "o", "o">>, <<"d", "i", "v">>, <<"s", "e", "c", "t", "i", "o", "n">>}, at \in {NoAttrs, Href(<<"u">>)},
                  k \in NodeSeqs(Nested, 2) \ {<<>>}}

Items ==
  {El(<<"l", "i">>, NoAttrs, <<Text(<<"x">>)>>),
   El(<<"l", "i">>, NoAttrs, <<Text(<<" ", "y", " ">>)>>),
   El(<<"l", "i">>, Start(<<"7">>), <<El(<<"p">>, NoAttrs, <<Text(<<"3", ".", " ", "z">>)>>)>>),
   El(<<"l", "i">>, NoAttrs, <<Text(<<"a">>), El(<<"o", "l">>, NoAttrs, <<El(<<"l", "i">>, NoAttrs, <<Text(<<"b">>)>>)>>)>>),
   Text(<<"\n">>)}

ListFragments ==
  {El(<<"o", "l">>, at, k) : at \in {NoAttrs, Start(<<"5">>)}, k \in NodeSeqs(Items, MaxItems)}
    \cup {El(<<"u", "l">>, NoAttrs, k) : k \in NodeSeqs(Items, MaxItems)}

BlankNodes == {Text(<<" ">>), Text(<<"\n">>), Comment(<<" ", "n", "o", "t", "e", " ">>), Comment(<<>>)}

\* Fragments of whitespace and comments only.
BlankDocs == {Soup(k) : k \in NodeSeqs(BlankNodes, MaxBlank)}

Docs ==
  {Soup(<<t>>) : t \in InlineFragments \cup NestedFragments \cup ListFragments} \cup BlankDocs

\* HTML read back from storage.
HtmlInputs == {Serialize(d) : d \in Docs}

\* The fragments and contents the threads convert.
ThreadHtml ==
  {<<>>, <<"<", "p", ">", "x", "<", "/", "p", ">", "<", "p", ">", "<", "/", "p", ">", "<", "p", ">", "<", "/", "p", ">", "<", "p", ">", "x", "<", "/", "p", ">">>, <<"<", "s", "t", "r", "o", "n", "g", ">", "[", "e", "n", "t", "i", "t", "y", ":", "5", "|", "B", "o", "b", "]", "<", "/", "s", "t", "r", "o", "n", "g", ">">>,
   <<"<", "o", "l", " ", "s", "t", "a", "r", "t", "=", "\"", "5", "\"", ">", "<", "l", "i", ">", "x", "<", "/", "l", "i", ">", "<", "/", "o", "l", ">">>}

ThreadMarkdown == {<<"H", "e", "l", "l", "o", " ">>, <<"Q", "&", "A">>, <<"[", "e", "n", "t", "i", "t", "y", ":", "9", "]">>}

\* Cells, rows and tables of stored entries: a row has cells of one kind.
Cells(name, n) == [j \in 1..n |-> El(name, NoAttrs, <<Text(IF j % 2 = 1 THEN <<"A">> ELSE <<" ", "B", " ">>)>>)]

Rows == {El(<<"t", "r">>, NoAttrs, Cells(name, n)) : name \in {<<"t", "d">>, <<"t", "h">>}, n \in 1..MaxCols}

TableFragments == {El(<<"t", "a", "b", "l", "e">>, NoAttrs, k) : k \in NodeSeqs(Rows, MaxRows)}

\* Paragraphs, line breaks and rules that leave runs of newlines behind them.
Blocks ==
  {El(<<"p">>, NoAttrs, <<Text(<<"x">>)>>), El(<<"p">>, NoAttrs, <<>>),
   El(<<"b", "r">>, NoAttrs, <<>>), Text(<<" ", "y", " ">>)}

BlockDocs ==
  {Soup(k) : k \in NodeSeqs(Blocks, MaxBlocks)}
    \cup {Soup(<<t>>) : t \in TableFragments}
    \cup {Soup(<<Text(<<"x">>), t, Text(<<"y">>)>>) : t \in TableFragments}

BlockInputs == {Serialize(d) : d \in BlockDocs}

\* Text beside inline elements, the separating spaces inside the text nodes.
SpacedParts ==
  {Text(<<"H", "e", "l", "l", "o", " ">>), El(<<"s", "t", "r", "o", "n", "g">>, NoAttrs, <<Text(<<"w", "o", "r", "l", "d">>)>>), Text(<<" ", "a", "n", "d", " ">>),
   El(<<"e", "m">>, NoAttrs, <<Text(<<" ", "x", " ">>)>>)}

SpacedFragments ==
  {El(n, NoAttrs, k) : n \in {<<"p">>, <<"s", "p", "a", "n">>}, k \in NodeSeqs(SpacedParts, MaxParts) \ {<<>>}}

\* Rows without cells and cells whose text holds the column delimiter.
EdgeRows ==
  {El(<<"t", "r">>, NoAttrs, <<>>),
   El(<<"t", "r">>, NoAttrs, <<El(<<"t", "d">>, NoAttrs, <<Text(<<"A">>)>>)>>),
   El(<<"t", "r">>, NoAttrs, <<El(<<"t", "d">>, NoAttrs, <<Text(<<"a", "|", "b">>)>>)>>),
   El(<<"t", "r">>, NoAttrs, <<El(<<"t", "h">>, NoAttrs, <<Text(<<"A">>)>>),
                         El(<<"t", "d">>, NoAttrs, <<Text(<<"a", "|", "b">>)>>)>>)}

EdgeTables == {El(<<"t", "a", "b", "l", "e">>, NoAttrs, k) : k \in NodeSeqs(EdgeRows, MaxRows)}

\* List items that hold lists of their own.
NestingItems ==
  {El(<<"l", "i">>, NoAttrs, <<Text(<<"x">>)>>),
   El(<<"l", "i">>, NoAttrs,
      <<Text(<<"a">>), El(<<"u", "l">>, NoAttrs, <<El(<<"l", "i">>, NoAttrs, <<Text(<<"b">>)>>),
                                            El(<<"l", "i">>, NoAttrs, <<Text(<<"c">>)>>)>>)>>),
   El(<<"l", "i">>, NoAttrs,
      <<Text(<<"d">>), El(<<"o", "l">>, NoAttrs, <<El(<<"l", "i">>, NoAttrs, <<Text(<<"e">>)>>)>>)>>)}

NestingLists == {El(<<"u", "l">>, NoAttrs, k) : k \in NodeSeqs(NestingItems, MaxItems)}

\* Elements whose rules look below their children: a table inside a cell, a
\* cell inside a cell's markup, code inside pre.
NestingBlocks ==
  {El(<<"t", "a", "b", "l", "e">>, NoAttrs,
      <<El(<<"t", "r">>, NoAttrs,
           <<El(<<"t", "d">>, NoAttrs,
                <<Text(<<"A">>),
                  El(<<"t", "a", "b", "l", "e">>, NoAttrs,
                     <<El(<<"t", "r">>, NoAttrs, <<El(<<"t", "d">>, NoAttrs, <<Text(<<"B">>)>>)>>)>>)>>)>>)>>),
   El(<<"t", "a", "b", "l", "e">>, NoAttrs,
      <<El(<<"t", "r">>, NoAttrs,
           <<El(<<"t", "d">>, NoAttrs, <<Text(<<"A">>), El(<<"e", "m">>, NoAttrs, <<Text(<<"B">>)>>)>>),
             El(<<"t", "h">>, NoAttrs, <<Text(<<"C">>)>>)>>)>>),
   El(<<"p", "r", "e">>, NoAttrs, <<El(<<"c", "o", "d", "e">>, NoAttrs, <<Text(<<"k">>)>>)>>),
   El(<<"p", "r", "e">>, NoAttrs, <<Text(<<"m">>), El(<<"c", "o", "d", "e">>, NoAttrs, <<Text(<<"k">>)>>)>>),
   El(<<"p", "r", "e">>, NoAttrs, <<Text(<<"m">>)>>),
   El(<<"c", "o", "d", "e">>, NoAttrs, <<El(<<"e", "m">>, NoAttrs, <<Text(<<"k">>)>>)>>)}

NestingDocs ==
  {Soup(<<t>>) : t \in SpacedFragments \cup EdgeTables \cup NestingLists \cup NestingBlocks}

NestingInputs == {Serialize(d) : d \in NestingDocs}

\* Texts of a tree walk as the cleanup may be handed them: lines, runs of
\* newlines and spaces, also at the ends.
CleanupTexts == Pieces({<<"\n">>, <<" ">>, <<"x">>}, MaxBlocks + 2)

\* ------------------------------------------------------- the Kanka campaign

\* Python str comparison a > b, by code point: the characters of the
\* timestamps are digits and "-", and "-" sorts before the digits.
CodePoint(c) ==
  CASE c = "-" -> 45 [] c = "0" -> 48 [] c = "1" -> 49 [] c = "2" -> 50
    [] c = "3" -> 51 [] c = "4" -> 52 [] c = "5" -> 53 [] c = "6" -> 54
    [] c = "7" -> 55 [] c = "8" -> 56 [] c = "9" -> 57

RECURSIVE StrGreater(_, _)
StrGreater(a, b) ==
  IF a = <<>> THEN FALSE
  ELSE IF b = <<>> THEN TRUE
  ELSE IF a[1] = b[1] THEN StrGreater(Tail(a), Tail(b))
  ELSE CodePoint(a[1]) > CodePoint(b[1])

\* The campaign is a listing: fillers characters nobody asks for (entity ids
\* and character ids above FillerBase), then the entities the calls are about.
FillerBase == 100000

\* The first id the server gives to what the calls create.
FirstId == 10

FillerEntity(i) ==
  [id |-> FillerBase + i, child_id |-> FillerBase + i, type |-> "character",
   name |-> "filler", updated_at |-> <<"2", "0", "2", "4", "-", "0", "1", "-", "0", "1">>, entry |-> <<>>]

\* The entities the calls are about, as the entities endpoint reports them:
\* entity id, type-specific id (child_id), API type, name, updated_at, entry.
Bob ==
  [id |-> 7, child_id |-> 3, type |-> "character", name |-> "Bob",
   updated_at |-> <<"2", "0", "2", "4", "-", "0", "5", "-", "0", "1">>, entry |-> <<"<", "p", ">", "x", "<", "/", "p", ">">>]

Guild ==
  [id |-> 8, child_id |-> 4, type |-> "organisation", name |-> "Guild",
   updated_at |-> <<"2", "0", "2", "4", "-", "0", "3", "-", "0", "1">>, entry |-> <<>>]

Sword ==
  [id |-> 9, child_id |-> 5, type |-> "item", name |-> "Sword",
   updated_at |-> <<"2", "0", "2", "4", "-", "0", "5", "-", "0", "1">>, entry |-> <<>>]

KnownEntities == {Bob, Guild, Sword}

\* Sequences of at most n of the entities, none twice.
RECURSIVE EntitySeqs(_, _)
EntitySeqs(es, n) ==
  IF n = 0 THEN {<<>>}
  ELSE LET shorter == EntitySeqs(es, n - 1)
       IN  shorter \cup UNION {{Append(k, e) : e \in es \ {k[i] : i \in DOMAIN k}} : k \in shorter}

\* Listings that end just before, at and after the page limits of the code.
FillerCounts ==
  {0, PageLimit - 1, PageLimit, MaxLookupPages * PageLimit, MaxCheckPages * PageLimit}

Campaigns ==
  {[fillers |-> f, entities |-> es, posts |-> {}, next_id |-> FirstId] :
     f \in FillerCounts, es \in EntitySeqs(KnownEntities, MaxEntities)}

\* The entities listing, position by position.
ListingSize(r) == r.fillers + Len(r.entities)

EntityAt(r, i) == IF i <= r.fillers THEN FillerEntity(i) ELSE r.entities[i - r.fillers]

\* self.client.entities(page=page, limit=limit): one page of the listing.
ClientEntities(r, page, limit) ==
  LET lo == (page - 1) * limit
      n == IF ListingSize(r) - lo < 0 THEN 0
           ELSE IF ListingSize(r) - lo > limit THEN limit ELSE ListingSize(r) - lo
  IN  [j \in 1..n |-> EntityAt(r, lo + j)]

\* API_ENDPOINT_MAP: the API's name for each of the service's entity types.
ApiType(entity_type) == IF entity_type = "organization" THEN "organisation" ELSE entity_type

SupportedTypes ==
  {"character", "creature", "location", "organization", "race", "note", "journal", "quest"}

\* The entity ids of one type, in listing order: the filler characters are
\* the first of the characters.
TypeIds(r, entity_type) ==
  LET real == SelectSeq(r.entities, LAMBDA e : e.type = ApiType(entity_type))
      n == IF entity_type = "character" THEN r.fillers ELSE 0
  IN  [i \in 1..n + Len(real) |-> IF i <= n THEN FillerBase + i ELSE real[i - n].id]

\* manager.list(page=page, limit=limit): one page of the entities of a type,
\* each entity object standing as its entity id.
ManagerList(r, entity_type, page, limit) ==
  LET ids == TypeIds(r, entity_type)
      lo == (page - 1) * limit
      hi == IF page * limit > Len(ids) THEN Len(ids) ELSE page * limit
  IN  SubSeq(ids, lo + 1, hi)

\* ------------------------------------------------------- tags

\* str.lower() on the names of the tags.
Lower(name) ==
  CASE name \in {"Elf", "elf", "ELF"} -> "elf"
    [] name \in {"Orc", "orc"} -> "orc"

\* The tags of the campaign, as self.client.tags lists them, and the
\* service's _tag_cache, a dict from lower-case names to tags.
NoTags == [campaign |-> <<>>, cache |-> <<>>]

\* d[key] = tag
PutTag(d, key, tag) == [k \in DOMAIN d \cup {key} |-> IF k = key THEN tag ELSE d[k]]

\* for tag in batch: self._tag_cache[tag.name.lower()] = tag
RECURSIVE CacheAll(_, _)
CacheAll(d, batch) ==
  IF batch = <<>> THEN d
  ELSE CacheAll(PutTag(d, Lower(batch[1].name), batch[1]), Tail(batch))

\* _load_tag_cache() on a campaign of less than a page of tags: the cache it
\* leaves.  outcome says whether self.client.tags.list returns or raises.
_load_tag_cache(campaign, outcome) ==
  IF outcome = "ok" THEN CacheAll(<<>>, campaign) ELSE <<>>

\* self.client.tags.create(name=name): the tag the campaign adds.
CreatedTag(campaign, name) == [id |-> Len(campaign) + 1, name |-> name]

\* The loop of _get_or_create_tag_ids over tag_names; st holds the campaign,
\* the cache, the ids collected and the names created so far, outcome says
\* whether self.client.tags.create returns or raises.
RECURSIVE TagIdsLoop(_, _, _)
TagIdsLoop(tag_names, st, outcome) ==
  IF tag_names = <<>> THEN st
  ELSE IF Lower(tag_names[1]) \in DOMAIN st.cache
  THEN TagIdsLoop(Tail(tag_names),
                  [st EXCEPT !.tag_ids = Append(@, st.cache[Lower(tag_names[1])].id)],
                  outcome)
  ELSE IF outcome = "ok"
  THEN TagIdsLoop(Tail(tag_names),
                  [campaign |-> Append(st.campaign, CreatedTag(st.campaign, tag_names[1])),
                   cache |-> PutTag(st.cache, Lower(tag_names[1]),
                                    CreatedTag(st.campaign, tag_names[1])),
                   tag_ids |-> Append(st.tag_ids, CreatedTag(st.campaign, tag_names[1]).id),
                   created |-> Append(st.created, tag_names[1])],
                  outcome)
  ELSE TagIdsLoop(Tail(tag_names), st, outcome)

\* _get_or_create_tag_ids(tag_names) with the tags t.
_get_or_create_tag_ids(t, tag_names, load_outcome, create_outcome) ==
  TagIdsLoop(tag_names,
             [campaign |-> t.campaign,
              cache |-> IF DOMAIN t.cache = {}
                        THEN _load_tag_cache(t.campaign, load_outcome)
                        ELSE t.cache,
              tag_ids |-> <<>>, created |-> <<>>],
             create_outcome)

\* The names callers tag entities with, and the tags campaigns start with.
TagNames == {"Elf", "elf", "Orc"}

TagCampaigns ==
  {<<>>, <<[id |-> 1, name |-> "Elf"]>>,
   <<[id |-> 1, name |-> "Elf"], [id |-> 2, name |-> "Orc"]>>}

\* ------------------------------------------------------- the state machine

VARIABLES
  md,           \* the shared renderer self.md: "reset" or "dirty"
  op,           \* the call that has just returned or raised ("idle": none)
  arg,          \* its argument
  ret,          \* its return value
  exc,          \* the exception it raised ("None": it returned)
  mapping,      \* the mapping _protect_mentions returned
  md_at_start,  \* the renderer's state when the call started
  calls,        \* the calls it made on the renderer and the parser, and how many raised
  origin,       \* the text a round trip started from
  threads,      \* the conversions running side by side, one record a thread
  remote,       \* the campaign on the Kanka server
  svc,          \* the call of the service or of a tool in progress
  tags          \* the campaign's tags and the service's _tag_cache

vars ==
  <<md, op, arg, ret, exc, mapping, md_at_start, calls, origin, threads, remote, svc,
    tags>>

\* What the converter and the call in progress leave alone.
others == <<threads, remote, svc, tags>>

NoCalls == [convert |-> 0, reset |-> 0, parse |-> 0, raised |-> 0]

NoOrigin == [kind |-> "none", text |-> <<>>]

\* A thread that runs no conversion.
IdleThread == [pc |-> "idle", kind |-> "none", input |-> <<>>, local |-> <<>>, result |-> <<>>]

Threads == 1..MaxThreads

NoThreads == [t \in Threads |-> IdleThread]

\* A campaign without entities.
NoCampaign == [fillers |-> 0, entities |-> <<>>, posts |-> {}, next_id |-> FirstId]

\* No call of the service or of a tool in progress.
NoCall ==
  [op |-> "idle", pc |-> "idle", args |-> <<>>, page |-> 0, pages |-> <<>>,
   acc |-> <<>>, result |-> <<>>, exc |-> "None"]

\* The converter after ContentConverter(), no call made yet.
ConverterInit ==
  /\ md = "reset"
  /\ op = "idle"
  /\ arg = <<>>
  /\ ret = <<>>
  /\ exc = "None"
  /\ mapping = <<>>
  /\ md_at_start = "reset"
  /\ calls = NoCalls
  /\ origin = NoOrigin

Init ==
  /\ ConverterInit
  /\ threads = NoThreads
  /\ remote = NoCampaign
  /\ svc = NoCall
  /\ tags = NoTags

DoMarkdownToHtml(content, outcome, from) ==
  LET r == markdown_to_html(content, md, outcome)
  IN  /\ md' = r.md
      /\ op' = "markdown_to_html"
      /\ arg' = content
      /\ ret' = r.ret
      /\ exc' = r.exc
      /\ mapping' = <<>>
      /\ md_at_start' = md
      /\ calls' = [convert |-> r.convert, reset |-> r.reset, parse |-> 0, raised |-> r.raised]
      /\ origin' = from
      /\ UNCHANGED others

DoHtmlToMarkdown(html, from) ==
  LET r == html_to_markdown(html)
  IN  /\ op' = "html_to_markdown"
      /\ arg' = html
      /\ ret' = r.ret
      /\ exc' = r.exc
      /\ mapping' = <<>>
      /\ md_at_start' = md
      /\ calls' = [convert |-> 0, reset |-> 0, parse |-> r.parse, raised |-> 0]
      /\ origin' = from
      /\ UNCHANGED <<md, others>>

\* A caller converts the Markdown of an entry it writes.
MarkdownToHtml ==
  /\ op = "idle"
  /\ \E content \in MdInputs, outcome \in {"ok", "raise"} :
       DoMarkdownToHtml(content, outcome, NoOrigin)

\* A caller converts the HTML of an entry it read.
HtmlToMarkdown ==
  /\ op = "idle"
  /\ \E html \in HtmlInputs : DoHtmlToMarkdown(html, NoOrigin)

\* The Markdown read from an entry is written back.
HtmlToMarkdownToHtml ==
  /\ op = "html_to_markdown" /\ exc = "None" /\ origin.kind = "none"
  /\ \E outcome \in {"ok", "raise"} :
       DoMarkdownToHtml(ret, outcome, [kind |-> "html", text |-> arg])

\* The HTML written to an entry is read back.
MarkdownToHtmlToMarkdown ==
  /\ op = "markdown_to_html" /\ exc = "None" /\ origin.kind = "none"
  /\ DoHtmlToMarkdown(ret, [kind |-> "markdown", text |-> arg])

\* A caller converts the HTML of an entry made of tables and paragraphs.
HtmlToMarkdownBlocks ==
  /\ op = "idle"
  /\ \E html \in BlockInputs : DoHtmlToMarkdown(html, NoOrigin)

\* The cleanup step of html_to_markdown on the text of a tree walk.
CleanUpText ==
  /\ op = "idle"
  /\ \E markdown_text \in CleanupTexts :
       /\ op' = "cleanup"
       /\ arg' = markdown_text
       /\ ret' = Cleanup(markdown_text)
       /\ exc' = "None"
       /\ mapping' = <<>>
       /\ md_at_start' = md
       /\ calls' = NoCalls
       /\ origin' = NoOrigin
       /\ UNCHANGED <<md, others>>

ProtectMentions ==
  /\ op = "idle"
  /\ \E content \in ProtectInputs :
       LET r == _protect_mentions(content)
       IN  /\ op' = "_protect_mentions"
           /\ arg' = content
           /\ ret' = r.protected
           /\ exc' = IF r.raised THEN "IndexError" ELSE "None"
           /\ mapping' = r.mentions
           /\ md_at_start' = md
           /\ calls' = NoCalls
           /\ origin' = NoOrigin
           /\ UNCHANGED <<md, others>>

RestoreMentions ==
  /\ op = "_protect_mentions" /\ exc = "None"
  /\ op' = "_restore_mentions"
  /\ arg' = ret
  /\ ret' = _restore_mentions(ret, mapping)
  /\ exc' = "None"
  /\ md_at_start' = md
  /\ calls' = NoCalls
  /\ origin' = [kind |-> "content", text |-> arg]
  /\ UNCHANGED <<md, mapping, others>>

\* The caller has taken the result (or handled the exception).
Return ==
  /\ op # "idle"
  /\ op' = "idle"
  /\ arg' = <<>>
  /\ ret' = <<>>
  /\ exc' = "None"
  /\ mapping' = <<>>
  /\ md_at_start' = md
  /\ calls' = NoCalls
  /\ origin' = NoOrigin
  /\ UNCHANGED <<md, others>>

Next ==
  \/ MarkdownToHtml
  \/ HtmlToMarkdown
  \/ HtmlToMarkdownToHtml
  \/ MarkdownToHtmlToMarkdown
  \/ ProtectMentions
  \/ RestoreMentions
  \/ Return

Spec == Init /\ [][Next]_vars

BlockNext ==
  \/ HtmlToMarkdownBlocks
  \/ CleanUpText
  \/ Return

\* The converter reading entries made of tables and paragraphs.
BlockSpec == Init /\ [][BlockNext]_vars

\* A caller converts the HTML of an entry with nested markup.
HtmlToMarkdownNesting ==
  /\ op = "idle"
  /\ \E html \in NestingInputs : DoHtmlToMarkdown(html, NoOrigin)

NestingNext ==
  \/ HtmlToMarkdownNesting
  \/ Return

\* The converter reading entries with nested markup.
NestingSpec == Init /\ [][NestingNext]_vars

\* ------------------------------------------------------- conversions side by side

\* One step of thread t: its record becomes new, the renderer's state md1.
ThreadStep(t, new, md1) ==
  /\ threads' = [threads EXCEPT ![t] = new]
  /\ md' = md1
  /\ UNCHANGED <<op, arg, ret, exc, mapping, md_at_start, calls, origin, remote, svc, tags>>

\* markdown_text = self._html_to_markdown_recursive(soup) with the renderer
\* in state md0: the walk's text and the state it leaves the renderer in.
WalkStep_resets_renderer(soup, md0) ==
  [local |-> _html_to_markdown_recursive(soup), md |-> "reset"]

WalkStep(soup, md0) ==
  [local |-> _html_to_markdown_recursive(soup), md |-> md0]

\* A thread enters html_to_markdown(html).
ThreadBeginHtml ==
  \E t \in Threads, html \in ThreadHtml :
    /\ threads[t].pc = "idle"
    /\ ThreadStep(t, [IdleThread EXCEPT !.pc = "h_parse", !.kind = "html", !.input = html], md)

\* if not html: return ""; soup = BeautifulSoup(html, "html.parser")
ThreadHtmlParse ==
  \E t \in Threads :
    /\ threads[t].pc = "h_parse"
    /\ IF threads[t].input = <<>>
       THEN ThreadStep(t, [threads[t] EXCEPT !.pc = "done", !.result = <<>>], md)
       ELSE ThreadStep(t, [threads[t] EXCEPT !.pc = "h_walk",
                                             !.local = BeautifulSoup(threads[t].input)], md)

\* markdown_text = self._html_to_markdown_recursive(soup)
ThreadHtmlWalk ==
  \E t \in Threads :
    /\ threads[t].pc = "h_walk"
    /\ LET w == WalkStep(threads[t].local, md)
       IN  ThreadStep(t, [threads[t] EXCEPT !.pc = IF HasRaised(w.local) THEN "raised" ELSE "h_clean",
                                             !.local = w.local], w.md)

\* the cleanup and the return
ThreadHtmlClean ==
  \E t \in Threads :
    /\ threads[t].pc = "h_clean"
    /\ ThreadStep(t, [threads[t] EXCEPT !.pc = "done", !.local = <<>>,
                                        !.result = Cleanup(threads[t].local)], md)

\* A thread enters markdown_to_html(content).
ThreadBeginMarkdown ==
  \E t \in Threads, content \in ThreadMarkdown :
    /\ threads[t].pc = "idle"
    /\ ThreadStep(t, [IdleThread EXCEPT !.pc = "m_protect", !.kind = "markdown", !.input = content], md)

\* protected_content, mentions = self._protect_mentions(content)
ThreadMarkdownProtect ==
  \E t \in Threads :
    /\ threads[t].pc = "m_protect"
    /\ LET p == _protect_mentions(threads[t].input)
       IN  ThreadStep(t, [threads[t] EXCEPT !.pc = IF p.raised THEN "raised" ELSE "m_convert",
                                             !.local = p], md)

\* html = self.md.convert(protected_content): the renderer fills its registries.
ThreadMarkdownConvert ==
  \E t \in Threads :
    /\ threads[t].pc = "m_convert"
    /\ ThreadStep(t, [threads[t] EXCEPT !.pc = "m_restore",
                                        !.local = [threads[t].local EXCEPT
                                                     !.protected = md_convert(threads[t].local.protected)]],
                  "dirty")

\* html = self._restore_mentions(html, mentions)
ThreadMarkdownRestore ==
  \E t \in Threads :
    /\ threads[t].pc = "m_restore"
    /\ ThreadStep(t, [threads[t] EXCEPT !.pc = "m_reset", !.local = <<>>,
                                        !.result = _restore_mentions(threads[t].local.protected,
                                                                     threads[t].local.mentions)], md)

\* self.md.reset(); return html
ThreadMarkdownReset ==
  \E t \in Threads :
    /\ threads[t].pc = "m_reset"
    /\ ThreadStep(t, [threads[t] EXCEPT !.pc = "done"], "reset")

\* The thread's caller has taken the result (or the exception).
ThreadReturn ==
  \E t \in Threads :
    /\ threads[t].pc \in {"done", "raised"}
    /\ ThreadStep(t, IdleThread, md)

ThreadNext ==
  \/ ThreadBeginHtml
  \/ ThreadHtmlParse
  \/ ThreadHtmlWalk
  \/ ThreadHtmlClean
  \/ ThreadBeginMarkdown
  \/ ThreadMarkdownProtect
  \/ ThreadMarkdownConvert
  \/ ThreadMarkdownRestore
  \/ ThreadMarkdownReset
  \/ ThreadReturn

\* One converter shared by threads that convert side by side.
ThreadSpec == Init /\ [][ThreadNext]_vars

\* ------------------------------------------------------- the service and the tools

\* One step of a call: its record becomes new; the rest stays.
ServiceStep(new) ==
  /\ svc' = new
  /\ UNCHANGED <<md, op, arg, ret, exc, mapping, md_at_start, calls, origin, threads, remote,
               tags>>

\* Whether the loop `while True` of list_entities goes on after a batch.
list_goes_on_never(batch) == FALSE

list_goes_on(batch) == batch # <<>> /\ ~(Len(batch) < PageLimit)

\* list_entities(entity_type, page, limit) is called (last_sync is None):
\* with limit 0 it enters its loop at page 1, otherwise it asks for the one
\* page and returns it, or the KankaException of the client.
ListEntities ==
  /\ svc.pc = "idle"
  /\ \E entity_type \in {"character", "organization", "note"}, page \in {1, 2},
        limit \in {0, 1, PageLimit}, outcome \in {"ok", "KankaException"} :
       LET call == [NoCall EXCEPT !.op = "list_entities",
                                  !.args = [entity_type |-> entity_type, page |-> page, limit |-> limit]]
       IN  IF limit = 0
           THEN outcome = "ok" /\ ServiceStep([call EXCEPT !.pc = "loop", !.page = 1])
           ELSE IF outcome = "ok"
           THEN ServiceStep([call EXCEPT !.pc = "returned", !.pages = <<page>>,
                                          !.result = ManagerList(remote, entity_type, page, limit)])
           ELSE ServiceStep([call EXCEPT !.pc = "raised", !.pages = <<page>>, !.exc = outcome])

\* One turn of the loop: batch = manager.list(page=current_page, limit=100);
\* an empty batch ends the loop, a short one after it is added.
ListEntitiesPage ==
  /\ svc.op = "list_entities" /\ svc.pc = "loop"
  /\ \E outcome \in {"ok", "KankaException"} :
       LET batch == ManagerList(remote, svc.args.entity_type, svc.page, PageLimit)
           asked == [svc EXCEPT !.pages = Append(svc.pages, svc.page)]
       IN  IF outcome # "ok"
           THEN ServiceStep([asked EXCEPT !.pc = "raised", !.acc = <<>>, !.exc = outcome])
           ELSE IF list_goes_on(batch)
           THEN ServiceStep([asked EXCEPT !.acc = svc.acc \o batch, !.page = svc.page + 1])
           ELSE ServiceStep([asked EXCEPT !.pc = "returned", !.acc = <<>>,
                                           !.result = svc.acc \o batch])

\* None, as get_entity_by_id returns it.
NoEntityData ==
  [isNone |-> TRUE, id |-> 0, entity_id |-> 0, name |-> "", entity_type |-> "",
   updated_at |-> <<>>, entry |-> NoneStr]

\* The first entity of a batch with the id, as the for loop finds it.
FirstWithId(batch, entity_id) ==
  LET at == {i \in 1..Len(batch) : batch[i].id = entity_id}
  IN  IF at = {} THEN [found |-> FALSE, entity |-> FillerEntity(0)]
      ELSE [found |-> TRUE, entity |-> batch[SetMin(at)]]

\* The search loop of get_entity_by_id from page on: at most MaxLookupPages
\* pages of the entities listing, until the id is found or a batch is empty
\* or short.
RECURSIVE FindEntity(_, _, _)
FindEntity(r, entity_id, page) ==
  IF ~(page <= MaxLookupPages) THEN FirstWithId(<<>>, entity_id)
  ELSE LET batch == ClientEntities(r, page, PageLimit)
           hit == FirstWithId(batch, entity_id)
       IN  IF batch = <<>> \/ hit.found \/ Len(batch) < PageLimit THEN hit
           ELSE FindEntity(r, entity_id, page + 1)

\* The if/elif chain from the API's type to the service's.
OurType(api_type) ==
  IF api_type = "organisation" THEN "organization"
  ELSE IF api_type \in SupportedTypes \ {"organization"} THEN api_type
  ELSE "None"

\* _entity_to_dict(entity, our_type), tags left out, with conv the outcome
\* of html_to_markdown(entity.entry): the entry is converted when there is one.
entity_dict_with(entity, our_type, conv) ==
  [raised |-> conv.exc # "None",
   data |-> [isNone |-> FALSE, id |-> entity.child_id, entity_id |-> entity.id,
             name |-> entity.name, entity_type |-> our_type,
             updated_at |-> entity.updated_at,
             entry |-> IF entity.entry # <<>> THEN Some(conv.ret) ELSE NoneStr]]

_entity_to_dict(entity, our_type) ==
  entity_dict_with(entity, our_type, html_to_markdown(entity.entry))

\* except Exception: return None
data_or_none(d) == IF d.raised THEN NoEntityData ELSE d.data

\* get_entity_by_id after its search loop ended with hit.
found_entity_data(hit) ==
  IF ~hit.found \/ OurType(hit.entity.type) = "None" \/ hit.entity.child_id = 0
  THEN NoEntityData
  ELSE data_or_none(_entity_to_dict(hit.entity, OurType(hit.entity.type)))

\* get_entity_by_id(entity_id) on campaign r; outcome says whether the
\* client's calls return ("ok") or raise.  Every exception ends in None.
get_entity_by_id(r, entity_id, outcome) ==
  IF outcome # "ok" THEN NoEntityData ELSE found_entity_data(FindEntity(r, entity_id, 1))

EntityIds == {6, 7, 8, 9}

\* get_entity_by_id(entity_id) is called.
GetEntityById ==
  /\ svc.pc = "idle"
  /\ \E entity_id \in EntityIds, outcome \in {"ok", "KankaException"} :
       ServiceStep([NoCall EXCEPT !.op = "get_entity_by_id", !.pc = "returned",
                                  !.args = [entity_id |-> entity_id, outcome |-> outcome],
                                  !.result = get_entity_by_id(remote, entity_id, outcome)])

\* The loop of handle_check_entity_updates from page on: the entities of at
\* most MaxCheckPages pages, until a batch is empty or short.
RECURSIVE CollectEntities(_, _)
CollectEntities(r, page) ==
  IF ~(page <= MaxCheckPages) THEN <<>>
  ELSE LET batch == ClientEntities(r, page, PageLimit)
       IN  IF batch = <<>> THEN <<>>
           ELSE IF Len(batch) < PageLimit THEN batch
           ELSE batch \o CollectEntities(r, page + 1)

\* The requested ids found in all_entities with an updated_at after last_synced,
\* and those not found in it, in the order of the request.
ModifiedAmong(ids, seen, last_synced) ==
  SelectSeq(ids, LAMBDA id :
    \E i \in 1..Len(seen) :
      /\ seen[i].id = id
      /\ \A j \in i + 1..Len(seen) : seen[j].id # id
      /\ seen[i].updated_at # <<>>
      /\ StrGreater(seen[i].updated_at, last_synced))

DeletedAmong(ids, seen) ==
  SelectSeq(ids, LAMBDA id : \A i \in 1..Len(seen) : seen[i].id # id)

\* handle_check_entity_updates(entity_ids, last_synced): all_entities is
\* filled from the pages, keyed by id (ids that are 0 left out), then every
\* requested id is looked up in it.
handle_check_entity_updates(r, entity_ids, last_synced, outcome) ==
  IF last_synced = <<>> THEN [exc |-> "ValueError", modified |-> <<>>, deleted |-> <<>>]
  ELSE IF outcome # "ok" THEN [exc |-> outcome, modified |-> <<>>, deleted |-> <<>>]
  ELSE LET all_entities == SelectSeq(CollectEntities(r, 1), LAMBDA e : e.id # 0)
       IN  [exc |-> "None",
            modified |-> ModifiedAmong(entity_ids, all_entities, last_synced),
            deleted |-> DeletedAmong(entity_ids, all_entities)]

\* The tool is called with a list of entity ids and the time of the last sync.
HandleCheckEntityUpdates ==
  /\ svc.pc = "idle"
  /\ \E entity_ids \in NodeSeqs(EntityIds \ {9}, MaxBatch),
        last_synced \in {<<>>, <<"2", "0", "2", "4", "-", "0", "4", "-", "0", "1">>}, outcome \in {"ok", "KankaException"} :
       LET r == handle_check_entity_updates(remote, entity_ids, last_synced, outcome)
       IN  ServiceStep([NoCall EXCEPT
             !.op = "handle_check_entity_updates",
             !.pc = IF r.exc = "None" THEN "returned" ELSE "raised",
             !.args = [entity_ids |-> entity_ids, last_synced |-> last_synced],
             !.exc = r.exc,
             !.result = [modified_entity_ids |-> r.modified, deleted_entity_ids |-> r.deleted]])

\* ------------------------------------------------------- the service's writes

\* The service's state a tool call works on: the campaign and the renderer.
\* Every operation below returns the exception it raised ("None": none),
\* its value, and the campaign and the renderer as it leaves them.
Raise(e, r, md1) == [exc |-> e, value |-> 0, remote |-> r, md |-> md1]

Return_(value, r, md1) == [exc |-> "None", value |-> value, remote |-> r, md |-> md1]

\* data["entry"] = self.converter.markdown_to_html(entry), when the guard in
\* front of it lets the entry through.
ConvertEntry(entry, through, st) ==
  IF through THEN markdown_to_html(entry.val, st.md, "ok")
  ELSE [ret |-> <<>>, exc |-> "None", md |-> st.md]

\* The place of the entity get_entity_by_id found.
IndexOfEntity(r, entity_id) == SetMin({i \in 1..Len(r.entities) : r.entities[i].id = entity_id})

\* manager.create(**data): the entity, with the campaign's next id.
CreatedEntity(r, entity_type, name, html) ==
  [id |-> r.next_id, child_id |-> r.next_id, type |-> ApiType(entity_type), name |-> name,
   updated_at |-> <<"2", "0", "2", "4", "-", "0", "6", "-", "0", "1">>, entry |-> html]

\* create_entity from manager.create on, c being the converted entry: the
\* entity is created and read back.
create_entity_with(st, entity_type, name, c) ==
  IF c.exc # "None" THEN Raise(c.exc, st.remote, c.md)
  ELSE IF _entity_to_dict(CreatedEntity(st.remote, entity_type, name, c.ret), entity_type).raised
  THEN Raise("ValueError",
             [st.remote EXCEPT
                !.entities = Append(@, CreatedEntity(st.remote, entity_type, name, c.ret)),
                !.next_id = @ + 1],
             c.md)
  ELSE Return_(st.remote.next_id,
               [st.remote EXCEPT
                  !.entities = Append(@, CreatedEntity(st.remote, entity_type, name, c.ret)),
                  !.next_id = @ + 1],
               c.md)

\* create_entity(entity_type, name, entry)
create_entity(st, entity_type, name, entry) ==
  create_entity_with(st, entity_type, name, ConvertEntry(entry, ~entry.isNone, st))

\* update_entity after get_entity_by_id returned found and the entry was
\* converted to c.
update_entity_with(st, entity_id, name, entry, found, c) ==
  IF found.isNone THEN Raise("ValueError", st.remote, st.md)
  ELSE IF c.exc # "None" THEN Raise(c.exc, st.remote, c.md)
  ELSE Return_(entity_id,
               [st.remote EXCEPT
                  !.entities[IndexOfEntity(st.remote, entity_id)].name = name,
                  !.entities[IndexOfEntity(st.remote, entity_id)].entry =
                    IF entry.isNone THEN @ ELSE c.ret],
               c.md)

\* update_entity(entity_id, name, entry)
update_entity(st, entity_id, name, entry) ==
  update_entity_with(st, entity_id, name, entry,
                     get_entity_by_id(st.remote, entity_id, "ok"),
                     ConvertEntry(entry, ~entry.isNone, st))

\* delete_entity without `if not entity_data: raise ValueError`.
delete_entity_unchecked(st, entity_id, found) ==
  Return_(entity_id,
          [st.remote EXCEPT
             !.entities = SelectSeq(@, LAMBDA e : e.id # entity_id),
             !.posts = {p \in @ : p[1] # entity_id}],
          st.md)

\* delete_entity after get_entity_by_id returned found: the entity goes, and
\* its posts with it.
delete_entity_with(st, entity_id, found) ==
  IF found.isNone THEN Raise("ValueError", st.remote, st.md)
  ELSE Return_(entity_id,
               [st.remote EXCEPT
                  !.entities = SelectSeq(@, LAMBDA e : e.id # entity_id),
                  !.posts = {p \in @ : p[1] # entity_id}],
               st.md)

\* delete_entity(entity_id)
delete_entity(st, entity_id) ==
  delete_entity_with(st, entity_id, get_entity_by_id(st.remote, entity_id, "ok"))

\* create_post after the lookup and the conversion: the post gets the
\* campaign's next id.
create_post_with(st, entity_id, found, c) ==
  IF found.isNone THEN Raise("ValueError", st.remote, st.md)
  ELSE IF c.exc # "None" THEN Raise(c.exc, st.remote, c.md)
  ELSE Return_(st.remote.next_id,
               [st.remote EXCEPT !.posts = @ \cup {<<entity_id, st.remote.next_id>>},
                                 !.next_id = @ + 1],
               c.md)

\* create_post(entity_id, name, entry)
create_post(st, entity_id, name, entry) ==
  create_post_with(st, entity_id, get_entity_by_id(st.remote, entity_id, "ok"),
                   ConvertEntry(entry, Truthy(entry), st))

\* update_post after the lookup and the conversion: the API refuses a post
\* the entity does not have.
update_post_with(st, entity_id, post_id, found, c) ==
  IF found.isNone THEN Raise("ValueError", st.remote, st.md)
  ELSE IF c.exc # "None" THEN Raise(c.exc, st.remote, c.md)
  ELSE IF <<entity_id, post_id>> \notin st.remote.posts
  THEN Raise("KankaException", st.remote, c.md)
  ELSE Return_(post_id, st.remote, c.md)

\* update_post(entity_id, post_id, name, entry)
update_post(st, entity_id, post_id, name, entry) ==
  update_post_with(st, entity_id, post_id, get_entity_by_id(st.remote, entity_id, "ok"),
                   ConvertEntry(entry, ~entry.isNone, st))

\* delete_post after the lookup.
delete_post_with(st, entity_id, post_id, found) ==
  IF found.isNone THEN Raise("ValueError", st.remote, st.md)
  ELSE IF <<entity_id, post_id>> \notin st.remote.posts
  THEN Raise("KankaException", st.remote, st.md)
  ELSE Return_(post_id, [st.remote EXCEPT !.posts = @ \ {<<entity_id, post_id>>}], st.md)

\* delete_post(entity_id, post_id)
delete_post(st, entity_id, post_id) ==
  delete_post_with(st, entity_id, post_id, get_entity_by_id(st.remote, entity_id, "ok"))

\* ------------------------------------------------------- the batch tools

\* A dict of the tool's input: a function from its keys.  d.get(k) of a
\* number is 0 for a missing key (None, as false as 0), of a name "", of an
\* entry None.
Has(d, k) == k \in DOMAIN d

GetInt(d, k) == IF Has(d, k) THEN d[k] ELSE 0

GetStr(d, k) == IF Has(d, k) THEN d[k] ELSE ""

GetEntry(d, k) == IF Has(d, k) THEN Some(d[k]) ELSE NoneStr

\* One result of a batch: success, the error message ("None": None), and
\* the ids and the name the result repeats.
Result(success, error, entity_id, post_id, name) ==
  [success |-> success, error |-> error, entity_id |-> entity_id, post_id |-> post_id,
   name |-> name]

\* What the body of a for loop leaves: the result it appended, or the
\* exception that left the handler (escaped), and the service's state.
Appended(result, r, md1) == [escaped |-> "None", result |-> result, remote |-> r, md |-> md1]

Escaped(e, st) ==
  [escaped |-> e, result |-> Result(FALSE, e, 0, 0, ""), remote |-> st.remote, md |-> st.md]

\* The result of a service call r: as the try block builds it when the call
\* returned, as the except block builds it from the exception otherwise.
Outcome(r, entity_id, post_id, name) ==
  Appended(Result(r.exc = "None", r.exc, entity_id, post_id, name), r.remote, r.md)

\* The result of create_entity carries the new entity's id, the result of
\* create_post the new post's; neither has one when the call raised.
EntityCreated(r, name) == Outcome(r, r.value, 0, name)

PostCreated(r, entity_id) == Outcome(r, entity_id, r.value, "")

\* The body of the loop of handle_create_entities.
create_entities_item(entity_input, st) ==
  IF GetStr(entity_input, "entity_type") \notin SupportedTypes
  THEN Appended(Result(FALSE, "Invalid entity_type", 0, 0, GetStr(entity_input, "name")),
                st.remote, st.md)
  ELSE IF GetStr(entity_input, "name") = ""
  THEN Appended(Result(FALSE, "Name is required", 0, 0, ""), st.remote, st.md)
  ELSE EntityCreated(create_entity(st, GetStr(entity_input, "entity_type"),
                                   GetStr(entity_input, "name"),
                                   GetEntry(entity_input, "entry")),
                     GetStr(entity_input, "name"))

\* The body of the loop of handle_update_entities.
update_entities_item(update, st) ==
  IF GetInt(update, "entity_id") = 0
  THEN Appended(Result(FALSE, "entity_id is required", 0, 0, ""), st.remote, st.md)
  ELSE IF GetStr(update, "name") = ""
  THEN Appended(Result(FALSE, "name is required for updates", GetInt(update, "entity_id"), 0, ""),
                st.remote, st.md)
  ELSE Outcome(update_entity(st, GetInt(update, "entity_id"), GetStr(update, "name"),
                             GetEntry(update, "entry")),
               GetInt(update, "entity_id"), 0, "")

\* The body of the loop of handle_delete_entities.
delete_entities_item(entity_id, st) == Outcome(delete_entity(st, entity_id), entity_id, 0, "")

\* The body of the loop of handle_create_posts: post_input["entity_id"] and
\* post_input["name"] raise KeyError for a missing key, inside the try; the
\* except block reads post_input["entity_id"] again.
create_posts_item(post_input, st) ==
  IF ~Has(post_input, "entity_id") THEN Escaped("KeyError", st)
  ELSE IF ~Has(post_input, "name")
  THEN Appended(Result(FALSE, "KeyError", post_input["entity_id"], 0, ""), st.remote, st.md)
  ELSE PostCreated(create_post(st, post_input["entity_id"], post_input["name"],
                               GetEntry(post_input, "entry")),
                   post_input["entity_id"])

\* The body of the loop of handle_update_posts; its except block reads
\* update["post_id"] and update["entity_id"].
update_posts_item(update, st) ==
  IF ~Has(update, "entity_id") \/ ~Has(update, "post_id") THEN Escaped("KeyError", st)
  ELSE IF ~Has(update, "name")
  THEN Appended(Result(FALSE, "KeyError", update["entity_id"], update["post_id"], ""),
                st.remote, st.md)
  ELSE Outcome(update_post(st, update["entity_id"], update["post_id"], update["name"],
                           GetEntry(update, "entry")),
               update["entity_id"], update["post_id"], "")

\* The body of the loop of handle_delete_posts; its except block reads
\* deletion["post_id"] and deletion["entity_id"].
delete_posts_item(deletion, st) ==
  IF ~Has(deletion, "entity_id") \/ ~Has(deletion, "post_id") THEN Escaped("KeyError", st)
  ELSE Outcome(delete_post(st, deletion["entity_id"], deletion["post_id"]),
               deletion["entity_id"], deletion["post_id"], "")

\* results = [] before the loop, and return results after it.
NoResults(st) == [escaped |-> "None", results |-> <<>>, remote |-> st.remote, md |-> st.md]

\* An exception that leaves the body of the loop leaves the handler, and the
\* results so far are lost with it.
Lost(one) == [escaped |-> one.escaped, results |-> <<>>, remote |-> one.remote, md |-> one.md]

\* The results of the rest of the loop after result.
After(result, rest) ==
  IF rest.escaped # "None" THEN rest ELSE [rest EXCEPT !.results = <<result>> \o @]

\* The state the next iteration starts in.
Left(one) == [remote |-> one.remote, md |-> one.md]

\* Each handler is the loop over its items: for item in items: ...; the
\* second operator of each pair is the loop once the body has run on the
\* first item and left one.
RECURSIVE handle_create_entities(_, _), create_entities_loop(_, _)
handle_create_entities(entities, st) ==
  IF entities = <<>> THEN NoResults(st)
  ELSE create_entities_loop(entities, create_entities_item(entities[1], st))

create_entities_loop(entities, one) ==
  IF one.escaped # "None" THEN Lost(one)
  ELSE After(one.result, handle_create_entities(Tail(entities), Left(one)))

RECURSIVE handle_update_entities(_, _), update_entities_loop(_, _)
handle_update_entities(updates, st) ==
  IF updates = <<>> THEN NoResults(st)
  ELSE update_entities_loop(updates, update_entities_item(updates[1], st))

update_entities_loop(updates, one) ==
  IF one.escaped # "None" THEN Lost(one)
  ELSE After(one.result, handle_update_entities(Tail(updates), Left(one)))

RECURSIVE handle_delete_entities(_, _), delete_entities_loop(_, _)
handle_delete_entities(entity_ids, st) ==
  IF entity_ids = <<>> THEN NoResults(st)
  ELSE delete_entities_loop(entity_ids, delete_entities_item(entity_ids[1], st))

delete_entities_loop(entity_ids, one) ==
  IF one.escaped # "None" THEN Lost(one)
  ELSE After(one.result, handle_delete_entities(Tail(entity_ids), Left(one)))

RECURSIVE handle_create_posts(_, _), create_posts_loop(_, _)
handle_create_posts(posts, st) ==
  IF posts = <<>> THEN NoResults(st)
  ELSE create_posts_loop(posts, create_posts_item(posts[1], st))

create_posts_loop(posts, one) ==
  IF one.escaped # "None" THEN Lost(one)
  ELSE After(one.result, handle_create_posts(Tail(posts), Left(one)))

RECURSIVE handle_update_posts(_, _), update_posts_loop(_, _)
handle_update_posts(updates, st) ==
  IF updates = <<>> THEN NoResults(st)
  ELSE update_posts_loop(updates, update_posts_item(updates[1], st))

update_posts_loop(updates, one) ==
  IF one.escaped # "None" THEN Lost(one)
  ELSE After(one.result, handle_update_posts(Tail(updates), Left(one)))

RECURSIVE handle_delete_posts(_, _), delete_posts_loop(_, _)
handle_delete_posts(deletions, st) ==
  IF deletions = <<>> THEN NoResults(st)
  ELSE delete_posts_loop(deletions, delete_posts_item(deletions[1], st))

delete_posts_loop(deletions, one) ==
  IF one.escaped # "None" THEN Lost(one)
  ELSE After(one.result, handle_delete_posts(Tail(deletions), Left(one)))

\* The items the tools are called with.
EntityInputs ==
  {[entity_type |-> "character", name |-> "Ann"],
   [entity_type |-> "note", name |-> "Ben", entry |-> <<"s", "e", "e", " ", "[", "e", "n", "t", "i", "t", "y", ":", "7", "]">>],
   [entity_type |-> "item", name |-> "Cid"],
   [entity_type |-> "character"]}

EntityUpdates ==
  {[entity_id |-> 7, name |-> "Bob", entry |-> <<"H", "e", "l", "l", "o", " ">>],
   [entity_id |-> 6, name |-> "Bob"],
   [name |-> "Bob"],
   [entity_id |-> 7]}

EntityDeletions == {6, 7}

PostInputs ==
  {[entity_id |-> 7, name |-> "Diary"],
   [entity_id |-> 6, name |-> "Diary"],
   [entity_id |-> 7],
   [name |-> "Diary"]}

PostUpdates ==
  {[entity_id |-> 7, post_id |-> 1, name |-> "Diary"],
   [entity_id |-> 7, post_id |-> 2, name |-> "Diary"],
   [entity_id |-> 7, post_id |-> 1],
   [post_id |-> 1, name |-> "Diary"]}

PostDeletions ==
  {[entity_id |-> 7, post_id |-> 1],
   [entity_id |-> 6, post_id |-> 1],
   [entity_id |-> 7]}

\* The service's state at the call.
ServiceState == [remote |-> remote, md |-> md]

\* The handler was called with items and ran to its end, r: it returns its
\* results or raises what escaped its loop.  The campaign gives out ids up
\* to MaxEntities above its first.
ToolCall(handler, items, r) ==
  /\ r.remote.next_id <= FirstId + MaxEntities
  /\ svc' = [NoCall EXCEPT !.op = handler,
                           !.pc = IF r.escaped = "None" THEN "returned" ELSE "raised",
                           !.args = items, !.exc = r.escaped, !.result = r.results]
  /\ remote' = r.remote
  /\ md' = r.md
  /\ UNCHANGED <<op, arg, ret, exc, mapping, md_at_start, calls, origin, threads, tags>>

HandleCreateEntities ==
  /\ svc.pc = "idle"
  /\ \E entities \in NodeSeqs(EntityInputs, MaxBatch) :
       ToolCall("handle_create_entities", entities,
                handle_create_entities(entities, ServiceState))

HandleUpdateEntities ==
  /\ svc.pc = "idle"
  /\ \E updates \in NodeSeqs(EntityUpdates, MaxBatch) :
       ToolCall("handle_update_entities", updates,
                handle_update_entities(updates, ServiceState))

HandleDeleteEntities ==
  /\ svc.pc = "idle"
  /\ \E entity_ids \in NodeSeqs(EntityDeletions, MaxBatch) :
       ToolCall("handle_delete_entities", entity_ids,
                handle_delete_entities(entity_ids, ServiceState))

HandleCreatePosts ==
  /\ svc.pc = "idle"
  /\ \E posts \in NodeSeqs(PostInputs, MaxBatch) :
       ToolCall("handle_create_posts", posts, handle_create_posts(posts, ServiceState))

HandleUpdatePosts ==
  /\ svc.pc = "idle"
  /\ \E updates \in NodeSeqs(PostUpdates, MaxBatch) :
       ToolCall("handle_update_posts", updates, handle_update_posts(updates, ServiceState))

HandleDeletePosts ==
  /\ svc.pc = "idle"
  /\ \E deletions \in NodeSeqs(PostDeletions, MaxBatch) :
       ToolCall("handle_delete_posts", deletions,
                handle_delete_posts(deletions, ServiceState))

\* The arguments the writes of the service are called with: entity 6 is in
\* no campaign, and the lookup of get_entity_by_id may fail.
WriteIds == {6, 7, 8}

WriteEntries == {NoneStr, Some(<<"H", "e", "l", "l", "o", " ">>), Some(<<"s", "e", "e", " ", "[", "e", "n", "t", "i", "t", "y", ":", "7", "]">>)}

LookupOutcomes == {"ok", "KankaException"}

\* A write of the service was called with args and ran to its end, r.
ServiceWrite(fn, args, r) ==
  /\ r.remote.next_id <= FirstId + MaxEntities
  /\ svc' = [NoCall EXCEPT !.op = fn,
                           !.pc = IF r.exc = "None" THEN "returned" ELSE "raised",
                           !.args = args, !.exc = r.exc, !.result = r.value]
  /\ remote' = r.remote
  /\ md' = r.md
  /\ UNCHANGED <<op, arg, ret, exc, mapping, md_at_start, calls, origin, threads, tags>>

UpdateEntity ==
  /\ svc.pc = "idle"
  /\ \E entity_id \in WriteIds, entry \in WriteEntries, lookup \in LookupOutcomes :
       ServiceWrite("update_entity",
                    [entity_id |-> entity_id, name |-> "Rob", entry |-> entry,
                     lookup |-> lookup],
                    update_entity_with(ServiceState, entity_id, "Rob", entry,
                                       get_entity_by_id(remote, entity_id, lookup),
                                       ConvertEntry(entry, ~entry.isNone, ServiceState)))

DeleteEntity ==
  /\ svc.pc = "idle"
  /\ \E entity_id \in WriteIds, lookup \in LookupOutcomes :
       ServiceWrite("delete_entity", [entity_id |-> entity_id, lookup |-> lookup],
                    delete_entity_with(ServiceState, entity_id,
                                       get_entity_by_id(remote, entity_id, lookup)))

CreatePost ==
  /\ svc.pc = "idle"
  /\ \E entity_id \in WriteIds, entry \in WriteEntries, lookup \in LookupOutcomes :
       ServiceWrite("create_post",
                    [entity_id |-> entity_id, name |-> "Diary", entry |-> entry,
                     lookup |-> lookup],
                    create_post_with(ServiceState, entity_id,
                                     get_entity_by_id(remote, entity_id, lookup),
                                     ConvertEntry(entry, Truthy(entry), ServiceState)))

UpdatePost ==
  /\ svc.pc = "idle"
  /\ \E entity_id \in WriteIds, post_id \in {1, FirstId}, entry \in WriteEntries,
        lookup \in LookupOutcomes :
       ServiceWrite("update_post",
                    [entity_id |-> entity_id, post_id |-> post_id, name |-> "Diary",
                     entry |-> entry, lookup |-> lookup],
                    update_post_with(ServiceState, entity_id, post_id,
                                     get_entity_by_id(remote, entity_id, lookup),
                                     ConvertEntry(entry, ~entry.isNone, ServiceState)))

DeletePost ==
  /\ svc.pc = "idle"
  /\ \E entity_id \in WriteIds, post_id \in {1, FirstId}, lookup \in LookupOutcomes :
       ServiceWrite("delete_post",
                    [entity_id |-> entity_id, post_id |-> post_id, lookup |-> lookup],
                    delete_post_with(ServiceState, entity_id, post_id,
                                     get_entity_by_id(remote, entity_id, lookup)))

\* The caller has taken the result (or the exception) of the call.
ServiceReturn ==
  /\ svc.pc \in {"returned", "raised"}
  /\ ServiceStep(NoCall)

\* The call returned r.
TagCall(call, r) ==
  /\ svc' = [NoCall EXCEPT !.op = "_get_or_create_tag_ids", !.pc = "returned",
                           !.args = call, !.acc = r.created, !.result = r.tag_ids]
  /\ tags' = [campaign |-> r.campaign, cache |-> r.cache]
  /\ UNCHANGED <<md, op, arg, ret, exc, mapping, md_at_start, calls, origin, threads, remote>>

\* _get_or_create_tag_ids(tag_names) is called.
GetOrCreateTagIds ==
  /\ svc.pc = "idle"
  /\ \E tag_names \in NodeSeqs(TagNames, MaxBatch),
        load_outcome \in {"ok", "KankaException"},
        create_outcome \in {"ok", "KankaException"} :
       TagCall([tag_names |-> tag_names, load_outcome |-> load_outcome,
                create_outcome |-> create_outcome],
               _get_or_create_tag_ids(tags, tag_names, load_outcome, create_outcome))

\* The campaign the service is connected to.
ServiceInit ==
  /\ ConverterInit
  /\ threads = NoThreads
  /\ remote \in Campaigns
  /\ svc = NoCall
  /\ tags = NoTags

ServiceNext ==
  \/ ListEntities
  \/ ListEntitiesPage
  \/ GetEntityById
  \/ HandleCheckEntityUpdates
  \/ ServiceReturn

\* The service and the tools on one campaign.  A call in progress goes on:
\* the code is synchronous.
ServiceSpec ==
  /\ ServiceInit
  /\ [][ServiceNext]_vars
  /\ WF_vars(ListEntitiesPage)

\* A campaign of two entities and one post.
ToolInit ==
  /\ ConverterInit
  /\ threads = NoThreads
  /\ remote = [fillers |-> 0, entities |-> <<Bob, Guild>>, posts |-> {<<7, 1>>},
               next_id |-> FirstId]
  /\ svc = NoCall
  /\ tags = NoTags

ToolNext ==
  \/ HandleCreateEntities
  \/ HandleUpdateEntities
  \/ HandleDeleteEntities
  \/ HandleCreatePosts
  \/ HandleUpdatePosts
  \/ HandleDeletePosts
  \/ ServiceReturn

\* The batch tools on one campaign.
ToolSpec == ToolInit /\ [][ToolNext]_vars

\* A service on a campaign with tags.
TagInit ==
  /\ ConverterInit
  /\ threads = NoThreads
  /\ remote = NoCampaign
  /\ svc = NoCall
  /\ tags \in {[campaign |-> c, cache |-> <<>>] : c \in TagCampaigns}

TagNext ==
  \/ GetOrCreateTagIds
  \/ ServiceReturn

\* The calls of _get_or_create_tag_ids on one service.
TagSpec == TagInit /\ [][TagNext]_vars

WriteNext ==
  \/ UpdateEntity
  \/ DeleteEntity
  \/ CreatePost
  \/ UpdatePost
  \/ DeletePost
  \/ ServiceReturn

\* The writes of the service on the campaign of two entities and one post.
WriteSpec == ToolInit /\ [][WriteNext]_vars

\* ------------------------------------------------------- properties

Range(f) == {f[i] : i \in DOMAIN f}

\* The fragment tree of the last html_to_markdown call, and its nodes.
LastSoup == BeautifulSoup(arg)

NodesOf(soup) == Range(Descendants(soup))

TagsNamed(soup, names) == {n \in NodesOf(soup) : IsTagIn(n, names)}

\* The mentions written in the text nodes of a fragment.
MentionsInText(soup) ==
  UNION {Range(MentionsOf(n.text, 1)) : n \in {t \in NodesOf(soup) : t.kind = "text"}}

\* Whether the strings of ms occur in s one after the other, from index i on.
RECURSIVE InOrder(_, _, _)
InOrder(s, i, ms) ==
  IF ms = <<>> THEN TRUE
  ELSE LET j == IndexFrom(s, i, ms[1])
       IN  j <= Len(s) /\ InOrder(s, j + Len(ms[1]), Tail(ms))

\* The tags _html_to_markdown_recursive has a rule for.
KnownTags ==
  {<<"p">>, <<"b", "r">>, <<"s", "t", "r", "o", "n", "g">>, <<"b">>, <<"e", "m">>, <<"i">>, <<"c", "o", "d", "e">>, <<"p", "r", "e">>, <<"a">>, <<"u", "l">>,
   <<"o", "l">>, <<"b", "l", "o", "c", "k", "q", "u", "o", "t", "e">>, <<"h", "r">>, <<"t", "a", "b", "l", "e">>} \cup Headings

\* C1: for content with no placeholder-like substring, _protect_mentions
\* returns without raising, and _restore_mentions of what it returned gives
\* the content back.
C1_RestoreOfProtectIsIdentity ==
  /\ (op = "_protect_mentions" /\ ~PLACEHOLDER_PATTERN(arg)) => exc = "None"
  /\ (op = "_restore_mentions" /\ ~PLACEHOLDER_PATTERN(origin.text)) => ret = origin.text

\* C2: markdown_to_html of Markdown that holds well-formed mentions returns
\* (unless the renderer itself fails) HTML in which the mentions stand as
\* written, in the order of the input, and no placeholder is left.
C2_MentionsStandInHtml ==
  (op = "markdown_to_html" /\ origin.kind = "none" /\ MentionsOf(arg, 1) # <<>>
     /\ exc # "RendererError")
    => /\ exc = "None"
       /\ InOrder(ret, 1, MentionsOf(arg, 1))
       /\ ~PLACEHOLDER_PATTERN(ret)

\* C3: markdown_to_html(html_to_markdown(h)) returns (unless the renderer
\* itself fails) HTML that holds every mention written in the text of h.
C3_HtmlRoundTripKeepsMentions ==
  (op = "markdown_to_html" /\ origin.kind = "html" /\ exc # "RendererError")
    => /\ exc = "None"
       /\ \A m \in MentionsInText(BeautifulSoup(origin.text)) : Contains(ret, m)

\* C4: html_to_markdown(markdown_to_html(m)) holds every mention of m: the
\* first conversion returns (unless the renderer itself fails) and the second
\* gives Markdown with each mention of m in it.
C4_MarkdownRoundTripKeepsMentions ==
  /\ (op = "markdown_to_html" /\ origin.kind = "none" /\ exc # "RendererError")
       => exc = "None"
  /\ (op = "html_to_markdown" /\ origin.kind = "markdown")
       => \A m \in Range(MentionsOf(origin.text, 1)) : Contains(ret, m)

\* C5: every markdown_to_html call starts with the shared renderer reset,
\* whatever the calls before it did.
C5_EveryCallStartsReset == op = "markdown_to_html" => md_at_start = "reset"

\* C6: html_to_markdown raises for no fragment, and a tag with no rule
\* renders as its children's renderings put together and stripped, unwrapped.
C6_UnknownTagsPassThrough ==
  op = "html_to_markdown" =>
    /\ exc = "None"
    /\ \A n \in NodesOf(LastSoup) :
         (n.kind = "tag" /\ n.name \notin KnownTags) =>
           _html_to_markdown_recursive(n)
             = Strip(Concat([i \in 1..Len(n.children) |->
                               _html_to_markdown_recursive(n.children[i])]))

C6_Witness ==
  /\ op = "html_to_markdown"
  /\ arg = <<"<", "f", "o", "o", ">", "<", "p", ">", "x", "<", "/", "p", ">", "t", "<", "/", "f", "o", "o", ">">>
  /\ ret = <<"x", "\n", "\n", "t">>

\* C7: an empty argument gives an empty result with no call on the renderer
\* or the parser and with the renderer's state as it was.
C7_EmptyInEmptyOut ==
  /\ (op = "markdown_to_html" /\ arg = <<>>)
       => /\ ret = <<>> /\ exc = "None"
          /\ calls = NoCalls
          /\ md = md_at_start
  /\ (op = "html_to_markdown" /\ arg = <<>>)
       => /\ ret = <<>> /\ exc = "None"
          /\ calls = NoCalls
          /\ md = md_at_start

C7_Witness == op = "markdown_to_html" /\ arg = <<>> /\ md_at_start = "dirty"

\* C8: a fragment of whitespace text and comments only converts to "".
C8_BlankFragmentIsEmpty ==
  (op = "html_to_markdown"
     /\ \A n \in Range(LastSoup.children) :
          n.kind = "comment" \/ (n.kind = "text" /\ Strip(n.text) = <<>>))
    => ret = <<>>

\* C9: an anchor whose children render to text with a mention marker in it
\* renders to that text alone; any other anchor renders to [text](href), href
\* being "" when the attribute is absent.
C9_AnchorRule ==
  op = "html_to_markdown" =>
    \A n \in TagsNamed(LastSoup, {<<"a">>}) :
      LET text == Strip(Concat([i \in 1..Len(n.children) |->
                                  _html_to_markdown_recursive(n.children[i])]))
          href == IF n.attrs.href.isNone THEN <<>> ELSE n.attrs.href.val
      IN  _html_to_markdown_recursive(n)
            = IF Contains(text, <<"[", "e", "n", "t", "i", "t", "y", ":">>) THEN text
              ELSE <<"[">> \o text \o <<"]", "(">> \o href \o <<")">>

C9_Witness ==
  /\ op = "html_to_markdown"
  /\ arg = <<"<", "a", " ", "h", "r", "e", "f", "=", "\"", "u", "\"", ">", "[", "e", "n", "t", "i", "t", "y", ":", "4", "2", "]", "<", "/", "a", ">">>
  /\ ret = <<"[", "e", "n", "t", "i", "t", "y", ":", "4", "2", "]">>

\* C10: an ordered list renders its direct list items, in order, as
\* "k. " and the item's rendering, k counting from 1 whatever the markup
\* says, the entries joined by one newline and followed by two.
C10_OrderedListNumbering ==
  op = "html_to_markdown" =>
    \A n \in TagsNamed(LastSoup, {<<"o", "l">>}) :
      LET lis == SelectSeq(n.children, LAMBDA c : c.kind = "tag" /\ c.name = <<"l", "i">>)
          entry(k) == ToDecimal(k) \o <<".", " ">> \o _html_to_markdown_recursive(lis[k])
      IN  _html_to_markdown_recursive(n)
            = Join([k \in 1..Len(lis) |-> entry(k)], <<"\n">>) \o <<"\n", "\n">>

C10_Witness ==
  /\ op = "html_to_markdown"
  /\ arg = <<"<", "o", "l", " ", "s", "t", "a", "r", "t", "=", "\"", "5", "\"", ">", "<", "l", "i", ">", "x", "<", "/", "l", "i", ">", "<", "l", "i", " ", "s", "t", "a", "r", "t", "=", "\"", "7", "\"", ">", "<", "p", ">", "3", ".", " ", "z", "<", "/", "p", ">", "<", "/", "l", "i", ">", "<", "l", "i", ">", " ", "y", " ", "<", "/", "l", "i", ">", "<", "/", "o", "l", ">">>
  /\ ret = <<"1", ".", " ", "x", "\n", "2", ".", " ", "3", ".", " ", "z", "\n", "3", ".", " ", "y">>

\* The table elements of the fragment being converted.
Tables == TagsNamed(LastSoup, {<<"t", "a", "b", "l", "e">>})

\* The cells of a row, as bs4 finds them.
CellsOf(tr) == find_all(tr, {<<"t", "d">>, <<"t", "h">>})

\* C11: every table with at least one row renders with a separator row
\* right after its first row (one --- per cell of the first row), every row
\* as pipe-delimited cells, and two newlines at the end; a table without
\* rows renders to the empty string.
C11_TableRendering ==
  op = "html_to_markdown" =>
    \A t \in Tables :
      LET trs == find_all(t, {<<"t", "r">>})
          out == Rule_table(t)
          lines == Split(out, "\n")
          n == Len(trs)
          cols == Len(CellsOf(trs[1]))
          piped(line, tr) ==
            /\ Len(line) >= 4
            /\ SubSeq(line, 1, 2) = <<"|", " ">>
            /\ SubSeq(line, Len(line) - 1, Len(line)) = <<" ", "|">>
            /\ Len(Split(line, "|")) = Len(CellsOf(tr)) + 2
      IN  IF n = 0 THEN out = <<>>
          ELSE /\ Len(lines) = n + 3
               /\ lines[n + 2] = <<>> /\ lines[n + 3] = <<>>
               /\ piped(lines[1], trs[1])
               /\ lines[2] = <<"|", " ">> \o Join(RepeatList(<<"-", "-", "-">>, cols), <<" ", "|", " ">>) \o <<" ", "|">>
               /\ \A i \in 2..n : piped(lines[i + 1], trs[i])

\* The text the tree walk produced for the fragment, before the cleanup.
RawMarkdown == _html_to_markdown_recursive(LastSoup)

\* The number of newlines s begins with.
LeadingNewlines(s) ==
  CHOOSE n \in 0..Len(s) :
    /\ \A j \in 1..n : s[j] = "\n"
    /\ n = Len(s) \/ s[n + 1] # "\n"

\* The lengths of the maximal runs of newlines of s, left to right.
RECURSIVE NewlineRuns(_)
NewlineRuns(s) ==
  IF s = <<>> THEN <<>>
  ELSE LET n == LeadingNewlines(s)
       IN  IF n = 0 THEN NewlineRuns(Tail(s))
           ELSE <<n>> \o NewlineRuns(SubSeq(s, n + 1, Len(s)))

\* The maximal newline-free pieces of s, left to right.
LinesOf(s) == SelectSeq(Split(s, "\n"), LAMBDA l : l # <<>>)

\* C12: the string html_to_markdown returns has no run of three or more
\* newlines and no whitespace at either end; it has the lines of the tree
\* walk's text, and every run of three or more newlines between them (four
\* or more blank lines included) has become exactly one blank line.
C12_CleanOutput ==
  (op = "html_to_markdown" /\ exc = "None" /\ arg # <<>>) =>
    LET raw == Strip(RawMarkdown)
    IN  /\ \A i \in 1..Len(ret) - 2 : ~(ret[i] = "\n" /\ ret[i + 1] = "\n" /\ ret[i + 2] = "\n")
        /\ ret # <<>> => ~IsSpace(ret[1]) /\ ~IsSpace(ret[Len(ret)])
        /\ LinesOf(ret) = LinesOf(raw)
        /\ Len(NewlineRuns(ret)) = Len(NewlineRuns(raw))
        /\ \A k \in 1..Len(NewlineRuns(raw)) :
             NewlineRuns(ret)[k] = IF NewlineRuns(raw)[k] >= 3 THEN 2 ELSE NewlineRuns(raw)[k]

\* Two paragraphs four blank lines apart come out one blank line apart.
C12_Witness ==
  /\ op = "html_to_markdown" /\ exc = "None"
  /\ arg = <<"<", "p", ">", "x", "<", "/", "p", ">", "<", "p", ">", "<", "/", "p", ">", "<", "p", ">", "<", "/", "p", ">", "<", "p", ">", "x", "<", "/", "p", ">">>
  /\ \E k \in 1..Len(NewlineRuns(Strip(RawMarkdown))) : NewlineRuns(Strip(RawMarkdown))[k] >= 5
  /\ ret = <<"x", "\n", "\n", "x">>

\* Contents whose only mention-like texts are malformed: a non-numeric id,
\* an empty display text, and, with no "]" anywhere after it, a display text
\* that is never closed.
MalformedContents ==
  {p \o u : p \in Pieces({<<"[", "e", "n", "t", "i", "t", "y", ":", "a", "b", "c", "]">>, <<"[", "e", "n", "t", "i", "t", "y", ":", "5", "|", "]">>, <<"a">>}, MaxSegs),
            u \in Pieces({<<"[", "e", "n", "t", "i", "t", "y", ":", "7", "|", "x">>, <<"a">>}, MaxSegs)}

C14_RendererFailurePropagates ==
  (op = "markdown_to_html" /\ calls.raised > 0) =>
    /\ exc = "RendererError"
    /\ ret = <<>>
    /\ calls.convert = 1
    /\ calls.reset = 0

\* The renderer fails on a content without mentions.
C14_Witness ==
  /\ op = "markdown_to_html" /\ calls.raised = 1
  /\ arg = <<"H", "e", "l", "l", "o", " ">>
  /\ exc = "RendererError"

\* C15: html_to_markdown reads and writes no state of the converter: however
\* its steps are interleaved with those of other conversions, each call
\* returns what it returns when it runs alone, and none of its steps changes
\* the renderer's state.
C15_HtmlToMarkdownIsStateless ==
  /\ [](\A t \in Threads :
          (threads[t].kind = "html" /\ threads[t].pc = "done") =>
            threads[t].result = html_to_markdown(threads[t].input).ret)
  /\ [][\A t \in Threads :
          (threads[t].kind = "html" /\ threads'[t] # threads[t]) => md' = md]_vars

\* A fragment has been converted while another thread is in the middle of
\* rendering, the renderer's registries filled.
C15_Witness ==
  \E t, u \in Threads :
    /\ threads[t].kind = "html" /\ threads[t].pc = "done"
    /\ threads[t].input = <<"<", "p", ">", "x", "<", "/", "p", ">", "<", "p", ">", "<", "/", "p", ">", "<", "p", ">", "<", "/", "p", ">", "<", "p", ">", "x", "<", "/", "p", ">">>
    /\ threads[t].result = <<"x", "\n", "\n", "x">>
    /\ threads[u].kind = "markdown" /\ threads[u].pc = "m_restore"
    /\ md = "dirty"

\* The batches of pages 1..k of a type, one after the other.
RECURSIVE BatchesUpTo(_, _, _)
BatchesUpTo(r, entity_type, k) ==
  IF k = 0 THEN <<>>
  ELSE BatchesUpTo(r, entity_type, k - 1) \o ManagerList(r, entity_type, k, PageLimit)

\* C17: list_entities with limit 0 asks for pages 1, 2, 3, ... of 100 in
\* order, stops at the first batch that is empty or shorter than 100, and
\* returns the batches it fetched one after the other, which are all the
\* entities of the type; on a finite listing the call ends.
C17_ListAllPaginates ==
  /\ [](svc.op = "list_entities" /\ svc.args.limit = 0 =>
          LET t == svc.args.entity_type
              k == Len(svc.pages)
              short(j) == Len(ManagerList(remote, t, j, PageLimit)) < PageLimit
          IN  /\ svc.pages = [j \in 1..k |-> j]
              /\ \A j \in 1..k - 1 : ~short(j)
              /\ svc.pc = "loop" => svc.page = k + 1 /\ (k > 0 => ~short(k))
              /\ svc.pc = "returned" =>
                   /\ k >= 1 /\ short(k)
                   /\ svc.result = BatchesUpTo(remote, t, k)
                   /\ svc.result = TypeIds(remote, t))
  /\ (svc.op = "list_entities" /\ svc.pc = "loop") ~> (svc.pc \in {"returned", "raised"})

\* A listing of exactly one full page: the second batch is the empty one.
C17_Witness ==
  /\ svc.op = "list_entities" /\ svc.args.limit = 0 /\ svc.pc = "returned"
  /\ svc.args.entity_type = "character"
  /\ svc.pages = <<1, 2>>
  /\ Len(svc.result) = PageLimit
  /\ ManagerList(remote, "character", 2, PageLimit) = <<>>

\* C18: get_entity_by_id returns the data of every entity of the campaign
\* that has a supported type and a type-specific id, wherever the entities
\* listing has it (the client's calls returning).
C18_ExistingEntityIsFound ==
  (svc.op = "get_entity_by_id" /\ svc.pc = "returned" /\ svc.args.outcome = "ok") =>
    \A i \in 1..Len(remote.entities) :
      LET e == remote.entities[i]
      IN  (e.id = svc.args.entity_id /\ OurType(e.type) # "None" /\ e.child_id # 0) =>
            /\ ~svc.result.isNone
            /\ svc.result.entity_id = e.id
            /\ svc.result.id = e.child_id
            /\ svc.result.name = e.name

\* The entity of the campaign with the id, if there is one.
Existing(id) == {e \in Range(remote.entities) : e.id = id}

\* C19: of the requested ids, handle_check_entity_updates reports as deleted
\* only ids no entity of the campaign has, and as modified exactly the ids of
\* entities updated after last_synced; the two lists share no id and hold
\* requested ids only.
C19_CheckEntityUpdates ==
  (svc.op = "handle_check_entity_updates" /\ svc.pc = "returned") =>
    LET requested == Range(svc.args.entity_ids)
        modified == Range(svc.result.modified_entity_ids)
        deleted == Range(svc.result.deleted_entity_ids)
    IN  /\ modified \subseteq requested /\ deleted \subseteq requested
        /\ modified \cap deleted = {}
        /\ \A id \in deleted : Existing(id) = {}
        /\ \A id \in requested :
             id \in modified <=>
               \E e \in Existing(id) : StrGreater(e.updated_at, svc.args.last_synced)

BatchHandlers ==
  {"handle_create_entities", "handle_update_entities", "handle_delete_entities",
   "handle_create_posts", "handle_update_posts", "handle_delete_posts"}

\* What a result repeats of the item it is the result of.
AnswersItem(handler, res, item) ==
  CASE handler = "handle_create_entities" -> res.name = GetStr(item, "name")
    [] handler = "handle_update_entities" -> res.entity_id = GetInt(item, "entity_id")
    [] handler = "handle_delete_entities" -> res.entity_id = item
    [] OTHER -> /\ Has(item, "entity_id") => res.entity_id = item["entity_id"]
                /\ (Has(item, "post_id") /\ handler # "handle_create_posts") =>
                     res.post_id = item["post_id"]

\* C16: every batch tool returns one result for every item of its input, in
\* the order of the input; the result of an item that failed has success
\* False and an error message, and the items after it are processed.
C16_OneResultPerItem ==
  svc.op \in BatchHandlers =>
    /\ svc.pc = "returned"
    /\ Len(svc.result) = Len(svc.args)
    /\ \A i \in 1..Len(svc.result) :
         /\ AnswersItem(svc.op, svc.result[i], svc.args[i])
         /\ svc.result[i].success <=> svc.result[i].error = "None"

\* t occurs in s.
OccursIn(t, s) == IndexFrom(s, 1, t) <= Len(s)

\* C20: a call of _protect_mentions assigns one token to every match of its
\* content, and no token occurs in another one (so no two are equal).
C20_TokensAreDistinct ==
  op = "_protect_mentions" =>
    /\ Len(mapping) = Len(MentionsOf(arg, 1))
    /\ \A i, j \in 1..Len(mapping) :
         i # j => ~OccursIn(mapping[i].placeholder, mapping[j].placeholder)

\* The matches of the mention syntax in s from index i on, left to right and
\* non-overlapping.
RECURSIVE MatchesOf(_, _)
MatchesOf(s, i) ==
  IF i > Len(s) THEN <<>>
  ELSE LET m == MENTION_PATTERN(s, i)
       IN  IF m.matched THEN <<m>> \o MatchesOf(s, m.last + 1)
           ELSE MatchesOf(s, i + 1)

\* s from index i on with its matches replaced by the tokens, in order.
RECURSIVE WithTokens(_, _, _)
WithTokens(s, i, tokens) ==
  IF i > Len(s) THEN <<>>
  ELSE LET m == MENTION_PATTERN(s, i)
       IN  IF m.matched /\ tokens # <<>>
           THEN tokens[1] \o WithTokens(s, m.last + 1, Tail(tokens))
           ELSE <<s[i]>> \o WithTokens(s, i + 1, tokens)

\* C21: _protect_mentions returns; its mapping has one entry per mention, the
\* k-th (from 0) with the token numbered k and the id and the text of the
\* k-th mention from the left; the content it returns is its argument with
\* every mention replaced in place by its token.
C21_ProtectScansLeftToRight ==
  op = "_protect_mentions" =>
    LET ms == MatchesOf(arg, 1)
    IN  /\ exc = "None"
        /\ Len(mapping) = Len(ms)
        /\ \A k \in 1..Len(mapping) :
             /\ StartsWithAt(mapping[k].placeholder, 1,
                             PlaceholderOpen \o ToDecimal(k - 1) \o <<"_", "_">>)
             /\ mapping[k].entity_id = ms[k].entity_id
             /\ mapping[k].text = ms[k].text
        /\ ret = WithTokens(arg, 1, [k \in 1..Len(mapping) |-> mapping[k].placeholder])

\* Every order of the entries of a mapping.
RECURSIVE OrdersOf(_)
OrdersOf(ms) ==
  IF ms = <<>> THEN {<<>>}
  ELSE UNION {{<<ms[i]>> \o p :
                 p \in OrdersOf([j \in 1..(Len(ms) - 1) |->
                                       IF j < i THEN ms[j] ELSE ms[j + 1]])} :
              i \in 1..Len(ms)}

\* C22: _protect_mentions of content with no placeholder-like substring
\* returns protected content and a mapping, and _restore_mentions of that
\* content gives the same string for the mapping's entries in every order.
C22_RestoreInAnyOrder ==
  (op = "_protect_mentions" /\ ~PLACEHOLDER_PATTERN(arg)) =>
    /\ exc = "None"
    /\ \A p \in OrdersOf(mapping) :
         _restore_mentions(ret, p) = _restore_mentions(ret, mapping)

\* C23: the tree walk gives every text node of the fragment as its raw
\* text, whitespace at its ends included.
C23_TextLeafEmitsRawText ==
  op = "html_to_markdown" =>
    \A n \in NodesOf(LastSoup) : n.kind = "text" => _html_to_markdown_recursive(n) = n.text

\* The number of places where p starts in s.
Occurrences(s, p) == Cardinality({j \in 1..Len(s) : StartsWithAt(s, j, p)})

\* C24: the separator row of a table, the line under its first row, has as
\* many --- columns as the first row has cells.
C24_SeparatorColumns ==
  op = "html_to_markdown" =>
    \A t \in Tables :
      LET trs == find_all(t, {<<"t", "r">>})
          lines == Split(Rule_table(t), "\n")
      IN  Len(trs) > 1 => Occurrences(lines[2], <<"-", "-", "-">>) = Len(CellsOf(trs[1]))

\* The unordered lists of the fragment being converted, in document order.
UnorderedLists == find_all(LastSoup, {<<"u", "l">>})

\* The number of items that are direct children of the lists.
RECURSIVE DirectItems(_)
DirectItems(uls) ==
  IF uls = <<>> THEN 0
  ELSE Len(find_all_direct(uls[1], {<<"l", "i">>})) + DirectItems(Tail(uls))

\* The texts of the items of the nested lists.
NestedItemTexts == {<<"b">>, <<"c">>, <<"e">>}

\* C25: every unordered list gives one "- " line for each of its direct
\* items and none for the items of the lists inside them: the result has as
\* many "- " as the lists have direct items, and the text of a nested item
\* stands in it as often as in the fragment.
C25_DirectItemsOnly ==
  (op = "html_to_markdown" /\ exc = "None" /\ UnorderedLists # <<>>) =>
    /\ Occurrences(ret, <<"-", " ">>) = DirectItems(UnorderedLists)
    /\ \A c \in NestedItemTexts :
         Occurrences(ret, c) = Occurrences(get_text(LastSoup), c)

\* A list whose first item holds a list of two items, and a second item.
C25_Witness ==
  /\ op = "html_to_markdown" /\ exc = "None"
  /\ arg = <<"<", "u", "l", ">", "<", "l", "i", ">", "a", "<", "u", "l", ">", "<", "l", "i", ">", "b", "<", "/", "l", "i", ">", "<", "l", "i", ">", "c", "<", "/", "l", "i", ">", "<", "/", "u", "l", ">", "<", "/", "l", "i", ">", "<", "l", "i", ">", "x", "<", "/", "l", "i", ">", "<", "/", "u", "l", ">">>
  /\ DirectItems(UnorderedLists) = 4
  /\ ret = <<"-", " ", "a", "-", " ", "b", "\n", "-", " ", "c", "\n", "-", " ", "x">>

\* C26: the cleanup returns, for every text, what collapsing every run of
\* three or more newlines to two and then stripping the result gives; so
\* does html_to_markdown for the text of its tree walk.
C26_CleanupOrder ==
  /\ op = "cleanup" => ret = Strip(CollapseNewlines(arg, 1))
  /\ (op = "html_to_markdown" /\ exc = "None" /\ arg # <<>>) =>
       ret = Strip(CollapseNewlines(RawMarkdown, 1))

\* A text with a space in front and a run of three newlines inside.
C26_Witness ==
  /\ op = "cleanup"
  /\ arg = <<" ", "x", "\n", "\n", "\n", "x">>
  /\ CollapseNewlines(arg, 1) = <<" ", "x", "\n", "\n", "x">>
  /\ ret = <<"x", "\n", "\n", "x">>

\* The tags the campaign held when the call of _get_or_create_tag_ids that
\* has just returned started: the calls it made append the tags they create.
TagsBefore == SubSeq(tags.campaign, 1, Len(tags.campaign) - Len(svc.acc))

\* C27: a call of _get_or_create_tag_ids creates a tag only for a name that,
\* letter case aside, no tag of the campaign bore when the call started and
\* no tag the call created before bears.
C27_NoTagCreatedTwice ==
  svc.op = "_get_or_create_tag_ids" =>
    \A k \in 1..Len(svc.acc) :
      /\ \A t \in Range(TagsBefore) : Lower(t.name) # Lower(svc.acc[k])
      /\ \A j \in 1..(k - 1) : Lower(svc.acc[j]) # Lower(svc.acc[k])

\* The characters of the text leaves of the last fragment, aside from white
\* space and from the characters the rules write as markup.
LeafCharacters == Range(get_text(LastSoup)) \ {" ", "\n", "\t", "|", "-", "*", "_", BQ}

\* C28: no character of a text leaf stands in the output of html_to_markdown
\* more often than in the text of the fragment.
C28_LeafTextAtMostOnce ==
  (op = "html_to_markdown" /\ exc = "None") =>
    \A c \in LeafCharacters :
      Occurrences(ret, <<c>>) <= Occurrences(get_text(LastSoup), <<c>>)

ServiceWrites == {"update_entity", "delete_entity", "create_post", "update_post", "delete_post"}

\* What the mutating call of the write that has just returned did to the
\* campaign r, leaving r1.
WriteDone(call, r, r1) ==
  CASE call.op = "update_entity" ->
         \E e \in Range(r1.entities) : e.id = call.args.entity_id /\ e.name = call.args.name
    [] call.op = "delete_entity" ->
         /\ \E e \in Range(r.entities) : e.id = call.args.entity_id
         /\ \A e \in Range(r1.entities) : e.id # call.args.entity_id
    [] call.op = "create_post" ->
         <<call.args.entity_id, call.result>> \in r1.posts \ r.posts
    [] call.op = "update_post" ->
         <<call.args.entity_id, call.args.post_id>> \in r.posts
    [] call.op = "delete_post" ->
         <<call.args.entity_id, call.args.post_id>> \in r.posts \ r1.posts

\* C29: a write of the service called with an entity_id for which
\* get_entity_by_id returns None raises ValueError and leaves the campaign as
\* it was; a write that returns has found the entity and made its mutating
\* call.
C29_NoWriteWithoutEntity ==
  [][(svc.pc = "idle" /\ svc'.op \in ServiceWrites) =>
       /\ get_entity_by_id(remote, svc'.args.entity_id, svc'.args.lookup).isNone =>
            (svc'.pc = "raised" /\ svc'.exc = "ValueError" /\ remote' = remote)
       /\ svc'.pc = "returned" =>
            /\ ~get_entity_by_id(remote, svc'.args.entity_id, svc'.args.lookup).isNone
            /\ WriteDone(svc', remote, remote')]_vars

\* Entity 7 was deleted, and a later update of entity 7 raised ValueError.
C29_Witness ==
  /\ svc.op = "update_entity" /\ svc.args.entity_id = 7 /\ svc.args.lookup = "ok"
  /\ svc.pc = "raised" /\ svc.exc = "ValueError"
  /\ remote.entities = <<Guild>>

====
